---- MODULE Spec2Model ----
(***************************************************************************)
(* Chronodrachma consensus engine: block store, chain engine (genesis,     *)
(* block ingestion, fork choice, reorganization, account-state replay),    *)
(* validator, difficulty controller, mempool collaborator and tip-change   *)
(* subscribers.                                                            *)
(*                                                                         *)
(* Representation.                                                         *)
(*  - A byte string is the sequence of the integers it encodes, a hash    *)
(*    contributing its words.                                              *)
(*  - A types.Hash is a sequence of words: a digest is one word, never 0;  *)
(*    ZeroHash is <<0>>.  SHA-256 is a polynomial hash of the byte string  *)
(*    (a rolling sum modulo a prime).  Addresses are written as two words. *)
(*  - A time.Time is an integer count of half seconds, so that Unix()      *)
(*    (whole seconds) loses the sub-second part as it does in the code.    *)
(*  - uint64 amounts are carried as integers; a negative value r stands    *)
(*    for the wrapped value 2^64 + r.                                      *)
(*  - A PoW digest of HashSize bytes is written as its bytes up to the    *)
(*    last non-zero one; ByteAt reads the zero bytes behind them.          *)
(***************************************************************************)
EXTENDS Integers, Sequences, FiniteSets, TLC

\* ------------------------------------------------------------------------
\* Bounds of the model
\* ------------------------------------------------------------------------

\* Blocks that may be stored on top of what the store held at start-up.
MaxBlocks == 1

\* AddBlock is offered children of blocks at most this far below the tip.
MaxForkDepth == 0

\* Tip-change subscribers.
MaxSubs == 1

\* Blocks that may be stored while a subscriber listens from start-up on.
MaxTipBlocks == 2

\* Blocks that may be stored on a chain of closely spaced blocks.
MaxClockBlocks == 3

\* Blocks that a node connected to a peer may mine.
MaxGossipBlocks == 1

\* Messages that the peer handlers of two connected nodes may send on.
MaxForwards == 4

\* Blocks that may be stored while calls run concurrently.
MaxLockBlocks == 1

\* The goroutines of the miner's parallel search (runtime.NumCPU()).
NumCPU == 4

\* The largest nonce a search goroutine tries.
MaxNonce == 5

\* Blocks that may be stored while the mining loop runs.
MaxMinerBlocks == 2

\* Blocks that may be stored write by write.
MaxWriteBlocks == 2

\* ------------------------------------------------------------------------
\* Program constants
\* ------------------------------------------------------------------------

HashSize == 32

ChronosPerCHRD == 100000000

TypesBlockReward == ChronosPerCHRD

TxTypeCoinbase == 0

TxTypeTransfer == 1

TargetBlockTime == 3600

DifficultyAdjustmentWindow == 24

CoinbaseMaturity == 24

\* 2 * time.Hour, in half seconds
MaxFutureBlockTime == 2 * 3600 * 2

\* ------------------------------------------------------------------------
\* types: hashes, transactions, headers, blocks
\* ------------------------------------------------------------------------

ZeroHash == <<0>>

\* The rolling sum of data from position i on: multiplier 31, modulo the
\* prime 2^26 - 5.
RECURSIVE Roll(_, _, _)
Roll(data, i, acc) ==
  IF i > Len(data) THEN acc
  ELSE Roll(data, i + 1, (acc * 31 + (data[i] % 67108859)) % 67108859)

ComputeSHA256(data) == <<1 + Roll(data, 1, 7)>>

\* time.Time.Unix(): whole seconds
Unix(t) == t \div 2

\* Transaction.Serialize: Type, Timestamp (seconds), From, To, Amount, Fee, Nonce
TxSerialize(tx) ==
  <<tx.Type, Unix(tx.Timestamp)>> \o tx.From \o tx.To
    \o <<tx.Amount, tx.Fee, tx.Nonce>>

ComputeID(tx) == ComputeSHA256(TxSerialize(tx))

\* BlockHeader.Serialize: Version, Height, Timestamp (seconds), PrevBlockHash,
\* MerkleRoot, Difficulty, Nonce
HeaderSerialize(h) ==
  <<h.Version, h.Height, Unix(h.Timestamp)>> \o h.PrevBlockHash \o h.MerkleRoot
    \o <<h.Difficulty, h.Nonce>>

ComputeHash(b) == ComputeSHA256(HeaderSerialize(b.Header))

\* One level of the merkle tree: pairs are hashed together, an unpaired tail
\* element is hashed with itself.
RECURSIVE MerkleLevel(_)
MerkleLevel(hashes) ==
  IF Len(hashes) = 0 THEN <<>>
  ELSE IF Len(hashes) = 1
       THEN <<ComputeSHA256(hashes[1] \o hashes[1])>>
       ELSE <<ComputeSHA256(hashes[1] \o hashes[2])>>
            \o MerkleLevel(SubSeq(hashes, 3, Len(hashes)))

RECURSIVE MerkleFold(_)
MerkleFold(hashes) ==
  IF Len(hashes) > 1 THEN MerkleFold(MerkleLevel(hashes)) ELSE hashes[1]

ComputeMerkleRoot(txs) ==
  IF Len(txs) = 0 THEN ZeroHash
  ELSE MerkleFold([i \in 1..Len(txs) |-> txs[i].ID])

\* ------------------------------------------------------------------------
\* consensus: hasher, MeetsDifficulty, difficulty retarget
\* ------------------------------------------------------------------------

ZeroDigest == <<>>

\* Byte i (from 1) of a digest.
ByteAt(powHash, i) == IF i <= Len(powHash) THEN powHash[i] ELSE 0

\* The pluggable hasher.  The stand-in is deterministic: a header with an even
\* nonce hashes to the all-zero digest, a header with an odd nonce to a digest
\* whose first bit is set.
HasherHash(headerBytes) ==
  IF headerBytes[Len(headerBytes)] % 2 = 0 THEN ZeroDigest
  ELSE <<128>>

MeetsDifficulty(powHash, difficulty) ==
  IF difficulty = 0 THEN TRUE
  ELSE IF difficulty > 256 THEN FALSE
  ELSE LET fullBytes == difficulty \div 8
           remainBits == difficulty % 8
       IN /\ \A i \in 1..fullBytes : ByteAt(powHash, i) = 0
          /\ (remainBits > 0 /\ fullBytes < HashSize)
               => (ByteAt(powHash, fullBytes + 1) \div (2 ^ (8 - remainBits))) = 0

\* getBlockByHeight is passed as the ancestor found at firstHeight:
\* [block |-> b, err |-> e].  The product is below 2^64 for every parent the
\* validator can have accepted (difficulty <= 256), so the cap at the maximal
\* uint64 is not reached.
FirstHeight(prevBlock) == prevBlock.Header.Height - DifficultyAdjustmentWindow + 1

CalcNextRequiredDifficulty(prevBlock, firstRes) ==
  IF prevBlock.Header.Height < DifficultyAdjustmentWindow
  THEN [diff |-> prevBlock.Header.Difficulty, err |-> "nil"]
  ELSE IF firstRes.err # "nil" THEN [diff |-> 0, err |-> firstRes.err]
  ELSE LET t == Unix(prevBlock.Header.Timestamp) - Unix(firstRes.block.Header.Timestamp)
           actualTime == IF t <= 0 THEN 1 ELSE t
           targetTime == TargetBlockTime * DifficultyAdjustmentWindow
           newDiff == (prevBlock.Header.Difficulty * targetTime) \div actualTime
       IN [diff |-> IF newDiff < 1 THEN 1 ELSE newDiff, err |-> "nil"]

\* ------------------------------------------------------------------------
\* blockchain: rewards, maturity, validation
\* ------------------------------------------------------------------------

BlockReward(height) == TypesBlockReward

TotalSupplyAtHeight(height) == (height + 1) * TypesBlockReward

IsMature(outputHeight, currentHeight) ==
  IF currentHeight < outputHeight THEN FALSE
  ELSE (currentHeight - outputHeight) >= CoinbaseMaturity

\* Position of the first coinbase that is not at index 0, or 0.
CoinbaseMisplaced(txs) ==
  \E i \in 2..Len(txs) : txs[i].Type = TxTypeCoinbase

CoinbaseCount(txs) ==
  Cardinality({i \in 1..Len(txs) : txs[i].Type = TxTypeCoinbase})

\* validateBlockInternal without the merkle root check (step 5).
validateBlockInternalNoMerkle(block) ==
  IF block.Hash # ComputeHash(block) THEN "ErrInvalidBlockHash"
  ELSE IF block.PowHash # HasherHash(HeaderSerialize(block.Header))
  THEN "ErrPowHashMismatch"
  ELSE IF ~MeetsDifficulty(block.PowHash, block.Header.Difficulty)
  THEN "ErrInvalidPoW"
  ELSE IF CoinbaseMisplaced(block.Transactions) THEN "ErrInvalidCoinbasePos"
  ELSE IF CoinbaseCount(block.Transactions) # 1 THEN "ErrNoCoinbaseTx"
  ELSE IF block.Transactions[1].Amount # BlockReward(block.Header.Height)
  THEN "ErrInvalidCoinbaseAmt"
  ELSE "nil"

\* validateBlockInternal without the coinbase amount check (step 10).
validateBlockInternalNoAmount(block) ==
  IF block.Header.MerkleRoot # ComputeMerkleRoot(block.Transactions)
  THEN "ErrInvalidMerkleRoot"
  ELSE IF block.Hash # ComputeHash(block) THEN "ErrInvalidBlockHash"
  ELSE IF block.PowHash # HasherHash(HeaderSerialize(block.Header))
  THEN "ErrPowHashMismatch"
  ELSE IF ~MeetsDifficulty(block.PowHash, block.Header.Difficulty)
  THEN "ErrInvalidPoW"
  ELSE IF CoinbaseMisplaced(block.Transactions) THEN "ErrInvalidCoinbasePos"
  ELSE IF CoinbaseCount(block.Transactions) # 1 THEN "ErrNoCoinbaseTx"
  ELSE "nil"

validateBlockInternal(block) ==
  IF block.Header.MerkleRoot # ComputeMerkleRoot(block.Transactions)
  THEN "ErrInvalidMerkleRoot"
  ELSE IF block.Hash # ComputeHash(block) THEN "ErrInvalidBlockHash"
  ELSE IF block.PowHash # HasherHash(HeaderSerialize(block.Header))
  THEN "ErrPowHashMismatch"
  ELSE IF ~MeetsDifficulty(block.PowHash, block.Header.Difficulty)
  THEN "ErrInvalidPoW"
  ELSE IF CoinbaseMisplaced(block.Transactions) THEN "ErrInvalidCoinbasePos"
  ELSE IF CoinbaseCount(block.Transactions) # 1 THEN "ErrNoCoinbaseTx"
  ELSE IF block.Transactions[1].Amount # BlockReward(block.Header.Height)
  THEN "ErrInvalidCoinbaseAmt"
  ELSE "nil"

\* now is the reading of the node's clock during the call.
ValidateBlock(block, parent, now) ==
  IF block.Header.Height # parent.Header.Height + 1 THEN "ErrInvalidHeight"
  ELSE IF block.Header.PrevBlockHash # parent.Hash THEN "ErrInvalidPrevHash"
  ELSE IF ~(block.Header.Timestamp > parent.Header.Timestamp)
  THEN "ErrTimestampTooOld"
  ELSE IF block.Header.Timestamp > now + MaxFutureBlockTime
  THEN "ErrTimestampTooFar"
  ELSE validateBlockInternal(block)

ValidateGenesis(genesis) ==
  IF genesis.Header.Height # 0 THEN "ErrInvalidHeight"
  ELSE IF genesis.Header.PrevBlockHash # ZeroHash THEN "ErrInvalidPrevHash"
  ELSE validateBlockInternal(genesis)

\* ------------------------------------------------------------------------
\* State
\* ------------------------------------------------------------------------

VARIABLES
  blocks,       \* store, "block:hash:<hash>"  : hash -> block
  canon,        \* store, "block:height:<h>"   : height -> hash
  cdf,          \* store, "block:cdf:<hash>"   : hash -> cumulative difficulty
  head,         \* store, "chain:head"         : <<>> or <<hash>>
  tip,          \* Chain.tip                   : <<>> (nil) or <<block>>
  pool,         \* Chain.pool is set (SetMempool was called)
  txs,          \* Mempool.txs                 : id -> transaction
  subscribers,  \* Chain.subscribers           : sequence of channels (buffer 1)
  mu,           \* Chain.mu: "free", or "stuck" once a holder waits on it forever
  last,         \* the last call made to the engine and what it returned
  added,        \* blocks above genesis stored since start-up (bounds the model)
  net,          \* the connected peer node and the messages in flight
  calls,        \* the calls in progress: where each is, and who holds
                \* Chain.mu and Mempool.mu
  search,       \* Miner.solveBlock: the shared block, resultCh, the workers
  loop          \* Miner.miningLoop: where it is and the job it has started

vars ==
  <<blocks, canon, cdf, head, tip, pool, txs, subscribers, mu, last, added, net,
    calls, search, loop>>

\* What lies outside the chain engine and its mempool.
outside == <<net, calls, search, loop>>

\* The same without the network, without the calls in progress, without the
\* parallel search, without the mining loop.
besidesNet == <<calls, search, loop>>

besidesCalls == <<net, search, loop>>

besidesSearch == <<net, calls, loop>>

besidesLoop == <<net, calls, search>>

\* The engine's state as one value, for the operators that compute a call.
Cur ==
  [blocks |-> blocks, canon |-> canon, cdf |-> cdf, head |-> head, tip |-> tip,
   pool |-> pool, txs |-> txs, subscribers |-> subscribers, mu |-> mu]

EmptyFcn == [x \in {} |-> x]

\* NewChain on an empty store, NewMempool, no subscriber.
EmptyState ==
  [blocks |-> EmptyFcn, canon |-> EmptyFcn, cdf |-> EmptyFcn, head |-> <<>>,
   tip |-> <<>>, pool |-> FALSE, txs |-> EmptyFcn, subscribers |-> <<>>,
   mu |-> "free"]

\* ------------------------------------------------------------------------
\* BlockStore
\* ------------------------------------------------------------------------

Put(f, k, v) == [x \in DOMAIN f \cup {k} |-> IF x = k THEN v ELSE f[x]]

SaveBlock(st, block) == [st EXCEPT !.blocks = Put(st.blocks, block.Hash, block)]

SetCanonical(st, height, hash) == [st EXCEPT !.canon = Put(st.canon, height, hash)]

SaveHead(st, hash) == [st EXCEPT !.head = <<hash>>]

SaveCumulativeDifficulty(st, hash, cd) == [st EXCEPT !.cdf = Put(st.cdf, hash, cd)]

StoreGetBlockByHash(st, hash) ==
  IF hash \in DOMAIN st.blocks
  THEN [block |-> <<st.blocks[hash]>>, err |-> "nil"]
  ELSE [block |-> <<>>, err |-> "ErrBlockNotFoundInStore"]

\* Two-step lookup: height -> hash -> block.
StoreGetBlockByHeight(st, height) ==
  IF height \in DOMAIN st.canon
  THEN StoreGetBlockByHash(st, st.canon[height])
  ELSE [block |-> <<>>, err |-> "ErrBlockNotFoundInStore"]

GetCumulativeDifficulty(st, hash) ==
  IF hash \in DOMAIN st.cdf
  THEN [cd |-> st.cdf[hash], err |-> "nil"]
  ELSE [cd |-> 0, err |-> "ErrKeyNotFound"]

\* ------------------------------------------------------------------------
\* Chain: subscribers
\* ------------------------------------------------------------------------

\* notifySubscribers with a plain send (ch <- newTip): a full buffer that
\* nobody empties holds the sender, and with it Chain.mu, for ever.
notifySubscribersBlocking(st, newTip) ==
  IF \E i \in 1..Len(st.subscribers) : Len(st.subscribers[i]) >= 1
  THEN [st EXCEPT !.mu = "stuck"]
  ELSE [st EXCEPT !.subscribers =
          [i \in 1..Len(st.subscribers) |-> Append(st.subscribers[i], newTip)]]

\* Non-blocking send on every channel: a full buffer drops the new value.
notifySubscribers(st, newTip) ==
  [st EXCEPT !.subscribers =
     [i \in 1..Len(st.subscribers) |->
        IF Len(st.subscribers[i]) < 1
        THEN Append(st.subscribers[i], newTip)
        ELSE st.subscribers[i]]]

\* ------------------------------------------------------------------------
\* Chain: ancestry walks
\* ------------------------------------------------------------------------

RECURSIVE AncestorWalk(_, _, _)
AncestorWalk(st, curr, height) ==
  IF curr.Header.Height > height
  THEN LET prev == StoreGetBlockByHash(st, curr.Header.PrevBlockHash)
       IN IF prev.err # "nil" THEN [block |-> curr, err |-> prev.err]
          ELSE AncestorWalk(st, prev.block[1], height)
  ELSE IF curr.Header.Height # height
       THEN [block |-> curr, err |-> "failed to navigate"]
       ELSE [block |-> curr, err |-> "nil"]

GetAncestorAtHeight(st, startBlock, height) ==
  IF height > startBlock.Header.Height
  THEN [block |-> startBlock, err |-> "target height is higher than start block"]
  ELSE AncestorWalk(st, startBlock, height)

\* The three loops of findForkPaths as one walk; newChain and oldChain are
\* collected tip-first and reversed at the end.
Reverse(s) == [i \in 1..Len(s) |-> s[Len(s) + 1 - i]]

RECURSIVE ForkWalk(_, _, _, _, _)
ForkWalk(st, currNew, currOld, newChain, oldChain) ==
  IF currNew.Header.Height > currOld.Header.Height
  THEN LET prev == StoreGetBlockByHash(st, currNew.Header.PrevBlockHash)
       IN IF prev.err # "nil"
          THEN [err |-> prev.err, ancestor |-> <<>>, newChain |-> <<>>, oldChain |-> <<>>]
          ELSE ForkWalk(st, prev.block[1], currOld, Append(newChain, currNew), oldChain)
  ELSE IF currOld.Header.Height > currNew.Header.Height
  THEN LET prev == StoreGetBlockByHash(st, currOld.Header.PrevBlockHash)
       IN IF prev.err # "nil"
          THEN [err |-> prev.err, ancestor |-> <<>>, newChain |-> <<>>, oldChain |-> <<>>]
          ELSE ForkWalk(st, currNew, prev.block[1], newChain, Append(oldChain, currOld))
  ELSE IF currNew.Hash # currOld.Hash
  THEN LET prevNew == StoreGetBlockByHash(st, currNew.Header.PrevBlockHash)
           prevOld == StoreGetBlockByHash(st, currOld.Header.PrevBlockHash)
       IN IF prevNew.err # "nil"
          THEN [err |-> prevNew.err, ancestor |-> <<>>, newChain |-> <<>>, oldChain |-> <<>>]
          ELSE IF prevOld.err # "nil"
          THEN [err |-> prevOld.err, ancestor |-> <<>>, newChain |-> <<>>, oldChain |-> <<>>]
          ELSE ForkWalk(st, prevNew.block[1], prevOld.block[1],
                        Append(newChain, currNew), Append(oldChain, currOld))
  ELSE [err |-> "nil", ancestor |-> <<currNew>>,
        newChain |-> Reverse(newChain), oldChain |-> Reverse(oldChain)]

findForkPaths(st, oldTip, newTip) == ForkWalk(st, newTip, oldTip, <<>>, <<>>)

\* ------------------------------------------------------------------------
\* Chain: account state
\* ------------------------------------------------------------------------

TipHeight(st) == IF st.tip = <<>> THEN 0 ELSE st.tip[1].Header.Height

\* One transaction of the replay: credit, then debit.
ApplyTx(acc, tx, addr, blockHeight, currentHeight) ==
  LET credited ==
        IF tx.To = addr
        THEN IF tx.Type = TxTypeCoinbase
             THEN IF IsMature(blockHeight, currentHeight)
                  THEN acc.balance + tx.Amount ELSE acc.balance
             ELSE acc.balance + tx.Amount
        ELSE acc.balance
  IN IF tx.From = addr
     THEN [acc EXCEPT !.balance = credited - (tx.Amount + tx.Fee), !.nonce = @ + 1]
     ELSE [acc EXCEPT !.balance = credited]

RECURSIVE ApplyTxs(_, _, _, _, _, _)
ApplyTxs(acc, list, i, addr, blockHeight, currentHeight) ==
  IF i > Len(list) THEN acc
  ELSE ApplyTxs(ApplyTx(acc, list[i], addr, blockHeight, currentHeight),
                list, i + 1, addr, blockHeight, currentHeight)

\* The loop over the canonical height index: the account after the blocks at
\* heights 0..h.  A height the store cannot resolve ends the loop (stopped).
RECURSIVE ReplayTo(_, _, _, _)
ReplayTo(st, addr, h, currentHeight) ==
  IF h < 0 THEN [balance |-> 0, nonce |-> 0, stopped |-> FALSE]
  ELSE LET acc == ReplayTo(st, addr, h - 1, currentHeight)
           r == StoreGetBlockByHeight(st, h)
       IN IF acc.stopped THEN acc
          ELSE IF r.err # "nil" THEN [acc EXCEPT !.stopped = TRUE]
          ELSE ApplyTxs(acc, r.block[1].Transactions, 1, addr,
                        r.block[1].Header.Height, currentHeight)

\* GetAccountState with the loop running over every height the index maps
\* instead of stopping at the tip height.
GetAccountStateWholeIndex(st, addr) ==
  LET top == IF DOMAIN st.canon = {} THEN 0
             ELSE CHOOSE h \in DOMAIN st.canon : \A k \in DOMAIN st.canon : k <= h
      acc == ReplayTo(st, addr, top, TipHeight(st))
  IN [balance |-> acc.balance, nonce |-> acc.nonce]

GetAccountState(st, addr) ==
  LET acc == ReplayTo(st, addr, TipHeight(st), TipHeight(st))
  IN [balance |-> acc.balance, nonce |-> acc.nonce]

\* ------------------------------------------------------------------------
\* Mempool
\* ------------------------------------------------------------------------

\* Ed25519: the signature made with the key of pub over msg is pub followed
\* by the digest of msg.
Sign(pub, msg) == pub \o ComputeSHA256(msg)

Verify(pub, msg, sig) == sig = Sign(pub, msg)

\* a < b on uint64 values (a negative integer stands for 2^64 + it)
U64Less(a, b) ==
  IF a < 0 THEN b < 0 /\ a < b ELSE b < 0 \/ a < b

SameSender(pooled, from) == {id \in DOMAIN pooled : pooled[id].From = from}

RECURSIVE SumDebit(_, _)
SumDebit(pooled, ids) ==
  IF ids = {} THEN 0
  ELSE LET id == CHOOSE x \in ids : TRUE
       IN pooled[id].Amount + pooled[id].Fee + SumDebit(pooled, ids \ {id})

\* The pending nonce without the pooled transactions: the confirmed nonce.
PendingNonceConfirmedOnly(pooled, from, currentNonce) == currentNonce

PendingNonce(pooled, from, currentNonce) ==
  LET above == {pooled[id].Nonce + 1 : id \in SameSender(pooled, from)}
                 \cup {currentNonce}
  IN CHOOSE n \in above : \A m \in above : m <= n

\* AddTransaction without its existence check.
AddTransactionUnchecked(st, tx, chainLocked) ==
  IF ~Verify(tx.From, TxSerialize(tx), tx.Signature)
  THEN [st |-> st, err |-> "ErrInvalidSignature"]
  ELSE IF chainLocked THEN [st |-> [st EXCEPT !.mu = "stuck"], err |-> "blocked"]
  ELSE LET acct == GetAccountState(st, tx.From)
           pendingNonce == PendingNonce(st.txs, tx.From, acct.nonce)
           pendingDebit == SumDebit(st.txs, SameSender(st.txs, tx.From))
       IN IF tx.Nonce # pendingNonce THEN [st |-> st, err |-> "ErrInvalidNonce"]
          ELSE IF U64Less(acct.balance, pendingDebit + tx.Amount + tx.Fee)
          THEN [st |-> st, err |-> "ErrInsufficientFunds"]
          ELSE [st |-> [st EXCEPT !.txs = Put(st.txs, tx.ID, tx)], err |-> "nil"]

\* AddTransaction without its nonce check.
AddTransactionAnyNonce(st, tx, chainLocked) ==
  IF tx.ID \in DOMAIN st.txs THEN [st |-> st, err |-> "ErrTxAlreadyInMempool"]
  ELSE IF ~Verify(tx.From, TxSerialize(tx), tx.Signature)
  THEN [st |-> st, err |-> "ErrInvalidSignature"]
  ELSE IF chainLocked THEN [st |-> [st EXCEPT !.mu = "stuck"], err |-> "blocked"]
  ELSE LET acct == GetAccountState(st, tx.From)
           pendingDebit == SumDebit(st.txs, SameSender(st.txs, tx.From))
       IN IF U64Less(acct.balance, pendingDebit + tx.Amount + tx.Fee)
          THEN [st |-> st, err |-> "ErrInsufficientFunds"]
          ELSE [st |-> [st EXCEPT !.txs = Put(st.txs, tx.ID, tx)], err |-> "nil"]

\* chainLocked: the caller holds Chain.mu for writing (the call comes from
\* reorganize), so GetAccountState's RLock never returns: "blocked".
AddTransaction(st, tx, chainLocked) ==
  IF tx.ID \in DOMAIN st.txs THEN [st |-> st, err |-> "ErrTxAlreadyInMempool"]
  ELSE IF ~Verify(tx.From, TxSerialize(tx), tx.Signature)
  THEN [st |-> st, err |-> "ErrInvalidSignature"]
  ELSE IF chainLocked THEN [st |-> [st EXCEPT !.mu = "stuck"], err |-> "blocked"]
  ELSE LET acct == GetAccountState(st, tx.From)
           pendingNonce == PendingNonce(st.txs, tx.From, acct.nonce)
           pendingDebit == SumDebit(st.txs, SameSender(st.txs, tx.From))
       IN IF tx.Nonce # pendingNonce THEN [st |-> st, err |-> "ErrInvalidNonce"]
          ELSE IF U64Less(acct.balance, pendingDebit + tx.Amount + tx.Fee)
          THEN [st |-> st, err |-> "ErrInsufficientFunds"]
          ELSE [st |-> [st EXCEPT !.txs = Put(st.txs, tx.ID, tx)], err |-> "nil"]

\* The less function GetPendingTransactions hands to sort.Slice.
Before(t, u) == t < u

\* GetPendingTransactions(maxCount): what the call can return.  The pool is a
\* Go map, whose iteration order is not specified, and sort.Slice is not
\* stable, so transactions the less function does not separate come in any
\* order.
GetPendingTransactions(st, maxCount) ==
  LET pooled == {st.txs[id] : id \in DOMAIN st.txs}
      n == Cardinality(pooled)
      allTxs == {s \in [1..n -> pooled] :
                   /\ \A i, j \in 1..n : i # j => s[i] # s[j]
                   /\ \A i, j \in 1..n :
                        i < j => ~Before(s[j].Timestamp, s[i].Timestamp)}
  IN {SubSeq(s, 1, IF maxCount < n THEN maxCount ELSE n) : s \in allTxs}

\* RemoveTransactions that deletes nothing.
RemoveNoTransactions(st, list) == st

RemoveTransactions(st, list) ==
  LET gone == {list[i].ID : i \in 1..Len(list)}
  IN [st EXCEPT !.txs = [id \in DOMAIN st.txs \ gone |-> st.txs[id]]]

\* ------------------------------------------------------------------------
\* Chain: reorganize
\* ------------------------------------------------------------------------

RECURSIVE AllTxs(_)
AllTxs(chain) ==
  IF Len(chain) = 0 THEN <<>>
  ELSE chain[1].Transactions \o AllTxs(Tail(chain))

\* The canonical index update of reorganize with only the new tip indexed.
SetCanonicalTipOnly(st, chain) ==
  IF Len(chain) = 0 THEN st
  ELSE SetCanonical(st, chain[Len(chain)].Header.Height, chain[Len(chain)].Hash)

RECURSIVE SetCanonicalAll(_, _)
SetCanonicalAll(st, chain) ==
  IF Len(chain) = 0 THEN st
  ELSE SetCanonicalAll(SetCanonical(st, chain[1].Header.Height, chain[1].Hash),
                       Tail(chain))

\* The loop that returns the old chain's transactions to the pool; errors of
\* AddTransaction are ignored, a call that never returns ends the loop.
RECURSIVE ReturnTxs(_, _, _, _)
ReturnTxs(st, txsToReturn, i, newTxSet) ==
  IF i > Len(txsToReturn) THEN [st |-> st, err |-> "nil"]
  ELSE IF txsToReturn[i].Type = TxTypeCoinbase \/ txsToReturn[i].ID \in newTxSet
  THEN ReturnTxs(st, txsToReturn, i + 1, newTxSet)
  ELSE LET r == AddTransaction(st, txsToReturn[i], TRUE)
       IN IF r.err = "blocked" THEN r
          ELSE ReturnTxs(r.st, txsToReturn, i + 1, newTxSet)

UpdateMempool(st, newChain, oldChain) ==
  IF ~st.pool THEN [st |-> st, err |-> "nil"]
  ELSE LET txsToReturn == AllTxs(oldChain)
           txsToRemove == AllTxs(newChain)
           newTxSet == {txsToRemove[i].ID : i \in 1..Len(txsToRemove)}
       IN ReturnTxs(RemoveTransactions(st, txsToRemove), txsToReturn, 1, newTxSet)

reorganize(st, newTip) ==
  LET fp == findForkPaths(st, st.tip[1], newTip)
  IN IF fp.err # "nil" THEN [st |-> st, err |-> fp.err]
     ELSE LET s3 == SetCanonicalAll(st, fp.newChain)
              s4 == SaveHead([s3 EXCEPT !.tip = <<newTip>>], newTip.Hash)
              s5 == UpdateMempool(s4, fp.newChain, fp.oldChain)
          IN IF s5.err = "blocked" THEN s5
             ELSE [st |-> notifySubscribers(s5.st, newTip), err |-> "nil"]

\* ------------------------------------------------------------------------
\* Chain: InitGenesis and AddBlock
\* ------------------------------------------------------------------------

\* The result of a call: the state it leaves and the error it returns
\* ("nil" for success, "blocked" when the call never returns).
Result(st, err) == [st |-> st, err |-> err]

GenesisBlock(minerAddress, difficulty, timestamp) ==
  LET cb0 == [ID |-> ZeroHash, Type |-> TxTypeCoinbase, Timestamp |-> timestamp,
              From |-> ZeroHash, To |-> minerAddress, Amount |-> TypesBlockReward,
              Fee |-> 0, Nonce |-> 0, Signature |-> <<>>]
      coinbase == [cb0 EXCEPT !.ID = ComputeID(cb0)]
      header == [Version |-> 1, Height |-> 0, Timestamp |-> timestamp,
                 PrevBlockHash |-> ZeroHash,
                 MerkleRoot |-> ComputeMerkleRoot(<<coinbase>>),
                 Difficulty |-> difficulty, Nonce |-> 0]
  IN [Header |-> header, Transactions |-> <<coinbase>>,
      Hash |-> ComputeSHA256(HeaderSerialize(header)),
      PowHash |-> HasherHash(HeaderSerialize(header))]

\* InitGenesis without the check of c.tip.
InitGenesisUnguarded(st, minerAddress, difficulty, timestamp) ==
  LET block == GenesisBlock(minerAddress, difficulty, timestamp)
      verr == ValidateGenesis(block)
  IN IF verr # "nil" THEN Result(st, verr)
     ELSE LET s1 == SaveBlock(st, block)
              s2 == SetCanonical(s1, 0, block.Hash)
              s3 == SaveCumulativeDifficulty(s2, block.Hash, difficulty)
              s4 == SaveHead(s3, block.Hash)
          IN Result([s4 EXCEPT !.tip = <<block>>], "nil")

\* InitGenesis with the block saved before it is validated.
InitGenesisSaveFirst(st, minerAddress, difficulty, timestamp) ==
  IF st.tip # <<>> THEN Result(st, "ErrChainAlreadyInitialized")
  ELSE LET block == GenesisBlock(minerAddress, difficulty, timestamp)
           verr == ValidateGenesis(block)
           s1 == SaveBlock(st, block)
       IN IF verr # "nil" THEN Result(s1, verr)
          ELSE LET s2 == SetCanonical(s1, 0, block.Hash)
                   s3 == SaveCumulativeDifficulty(s2, block.Hash, difficulty)
                   s4 == SaveHead(s3, block.Hash)
               IN Result([s4 EXCEPT !.tip = <<block>>], "nil")

InitGenesisStep(st, minerAddress, difficulty, timestamp) ==
  IF st.tip # <<>> THEN Result(st, "ErrChainAlreadyInitialized")
  ELSE LET block == GenesisBlock(minerAddress, difficulty, timestamp)
           verr == ValidateGenesis(block)
       IN IF verr # "nil" THEN Result(st, verr)
          ELSE LET s1 == SaveBlock(st, block)
                   s2 == SetCanonical(s1, 0, block.Hash)
                   s3 == SaveCumulativeDifficulty(s2, block.Hash, difficulty)
                   s4 == SaveHead(s3, block.Hash)
               IN Result([s4 EXCEPT !.tip = <<block>>], "nil")

\* The required difficulty with the window start read from the canonical
\* height index instead of parent's own ancestry.
RequiredDifficultyByIndex(st, parent) ==
  LET r == StoreGetBlockByHeight(st, FirstHeight(parent))
  IN CalcNextRequiredDifficulty(parent,
       [block |-> IF r.err = "nil" THEN r.block[1] ELSE parent, err |-> r.err])

\* The required difficulty of a child of parent: the window start is found by
\* walking prev hashes back from parent.
RequiredDifficulty(st, parent) ==
  CalcNextRequiredDifficulty(parent,
                             GetAncestorAtHeight(st, parent, FirstHeight(parent)))

\* The fork choice rule with every tie going to the new block.
HeavierOrEqual(newCDF, tipCDF, block, tipBlock) == newCDF >= tipCDF

\* The fork choice rule of a longest-extension node: only a child of the tip
\* becomes the tip.
ExtendsTip(newCDF, tipCDF, block, tipBlock) ==
  block.Header.PrevBlockHash = tipBlock.Hash

\* Fork choice rule: the new block becomes the tip.
HeavierThanTip(newCDF, tipCDF, block, tipBlock) ==
  newCDF > tipCDF \/ (newCDF = tipCDF /\ block.Header.PrevBlockHash = tipBlock.Hash)

\* The cumulative difficulty with the parent's share left out.
NewCDFOwnOnly(parentCDF, block) == block.Header.Difficulty

NewCDF(parentCDF, block) == parentCDF + block.Header.Difficulty

\* Steps 6 to 8 of AddBlock, for a block that passed validation.
StoreAndChoose(st, block, parent) ==
  LET parentCDF == GetCumulativeDifficulty(st, parent.Hash)
  IN IF parentCDF.err # "nil" THEN Result(st, "failed to get parent cdf")
     ELSE LET newCDF == NewCDF(parentCDF.cd, block)
              s7 == SaveCumulativeDifficulty(SaveBlock(st, block), block.Hash, newCDF)
              tipCDF == GetCumulativeDifficulty(s7, s7.tip[1].Hash)
          IN IF tipCDF.err # "nil" THEN Result(s7, "failed to get tip cdf")
             ELSE IF HeavierThanTip(newCDF, tipCDF.cd, block, s7.tip[1])
             THEN reorganize(s7, block)
             ELSE Result(s7, "nil")

\* Steps 5 to 8 of AddBlock with the block saved before it is validated.
SaveThenValidate(st, block, parent, now) ==
  LET verr == ValidateBlock(block, parent, now)
  IN IF verr # "nil" THEN Result(SaveBlock(st, block), verr)
     ELSE StoreAndChoose(st, block, parent)

\* Steps 5 to 8 of AddBlock.
ValidateAndStore(st, block, parent, now) ==
  LET verr == ValidateBlock(block, parent, now)
  IN IF verr # "nil" THEN Result(st, verr)
     ELSE StoreAndChoose(st, block, parent)

\* Step 1 of AddBlock without the lookup: no block counts as stored.
NeverProcessed(st, block) == Result(st, "continue")

\* Step 1 of AddBlock: the block is already stored.
AlreadyProcessed(st, block) ==
  IF StoreGetBlockByHash(st, block.Hash).err = "nil"
  THEN Result(st, "nil")
  ELSE Result(st, "continue")

AddBlockStep(st, block, now) ==
  IF st.tip = <<>> THEN Result(st, "chain not initialized")
  ELSE IF AlreadyProcessed(st, block).err # "continue" THEN AlreadyProcessed(st, block)
  ELSE LET pr == StoreGetBlockByHash(st, block.Header.PrevBlockHash)
       IN IF pr.err # "nil" THEN Result(st, "ErrParentNotFound")
          ELSE LET parent == pr.block[1]
               IN IF block.Header.Height # parent.Header.Height + 1
                  THEN Result(st, "invalid block height")
                  ELSE LET req == RequiredDifficulty(st, parent)
                       IN IF req.err # "nil" THEN Result(st, req.err)
                          ELSE IF block.Header.Difficulty # req.diff
                          THEN Result(st, "block difficulty does not match required")
                          ELSE ValidateAndStore(st, block, parent, now)

TotalSupply(st) ==
  IF st.tip = <<>> THEN 0 ELSE TotalSupplyAtHeight(st.tip[1].Header.Height)

\* ------------------------------------------------------------------------
\* Environment: the blocks and transactions handed to the engine
\* ------------------------------------------------------------------------

Alice == <<0, 1>>

Bob == <<0, 2>>

\* Block spacings the miners produce, in half seconds: 1800 s and 50000 s.
Fast == 2 * 1800

Slow == 2 * 50000

\* A header and a body sealed as a block: identity hash and PoW hash computed.
Seal(header, body) ==
  [Header |-> header, Transactions |-> body,
   Hash |-> ComputeSHA256(HeaderSerialize(header)),
   PowHash |-> HasherHash(HeaderSerialize(header))]

WithID(tx) == [tx EXCEPT !.ID = ComputeID(tx)]

Signed(tx) == [tx EXCEPT !.Signature = Sign(tx.From, TxSerialize(tx))]

NewCoinbaseTx(minerAddress, blockHeight, timestamp) ==
  WithID([ID |-> ZeroHash, Type |-> TxTypeCoinbase, Timestamp |-> timestamp,
          From |-> ZeroHash, To |-> minerAddress, Amount |-> TypesBlockReward,
          Fee |-> 0, Nonce |-> blockHeight, Signature |-> <<>>])

NewTransfer(from, to, amount, fee, nonce) ==
  WithID([ID |-> ZeroHash, Type |-> TxTypeTransfer, Timestamp |-> 2 * 10,
          From |-> from, To |-> to, Amount |-> amount, Fee |-> fee,
          Nonce |-> nonce, Signature |-> <<>>])

\* Alice pays Bob 5 with fee 1, signed by Alice.
Transfer1 == Signed(NewTransfer(Alice, Bob, 5, 1, 0))

\* Bob pays Alice 7; the signature is not Bob's.
Transfer2 ==
  [NewTransfer(Bob, Alice, 7, 0, 0) EXCEPT !.Signature = Sign(Alice, <<0>>)]

\* The block template of a miner on parent: coinbase first, then the
\* transfers, the difficulty it is given, a nonce whose PoW digest is all zero.
MineBlock(parent, difficulty, timestamp, transfers) ==
  LET height == parent.Header.Height + 1
      body == <<NewCoinbaseTx(Alice, height, timestamp)>> \o transfers
  IN Seal([Version |-> 1, Height |-> height, Timestamp |-> timestamp,
           PrevBlockHash |-> parent.Hash, MerkleRoot |-> ComputeMerkleRoot(body),
           Difficulty |-> difficulty, Nonce |-> 0],
          body)

\* The honest child of parent that sh describes: it carries the difficulty
\* the engine requires of a child of parent.
Child(st, parent, sh) ==
  MineBlock(parent, RequiredDifficulty(st, parent).diff,
            parent.Header.Timestamp + sh.delta, sh.transfers)

Reseal(b, header) == Seal(header, b.Transactions)

Rebody(b, body) ==
  Seal([b.Header EXCEPT !.MerkleRoot = ComputeMerkleRoot(body)], body)

\* A block that breaks one rule, made from the honest block b.
Tamper(b, kind) ==
  CASE kind = "parent" ->
         Reseal(b, [b.Header EXCEPT !.PrevBlockHash = ComputeSHA256(<<0>>)])
    [] kind = "height" -> Reseal(b, [b.Header EXCEPT !.Height = @ + 1])
    [] kind = "difficulty" -> Reseal(b, [b.Header EXCEPT !.Difficulty = @ + 1])
    [] kind = "old" -> Reseal(b, [b.Header EXCEPT !.Timestamp = @ - Fast])
    [] kind = "merkle" -> Reseal(b, [b.Header EXCEPT !.MerkleRoot = ZeroHash])
    [] kind = "hash" -> [b EXCEPT !.Hash = ComputeSHA256(<<1>>)]
    [] kind = "powhash" -> [b EXCEPT !.PowHash = HasherHash(<<1>>)]
    [] kind = "pow" -> Reseal(b, [b.Header EXCEPT !.Nonce = 1])
    [] kind = "nocoinbase" -> Rebody(b, <<Transfer1>>)
    [] kind = "twocoinbase" -> Rebody(b, <<b.Transactions[1], b.Transactions[1]>>)
    [] kind = "coinbaselast" -> Rebody(b, <<Transfer1, b.Transactions[1]>>)
    [] kind = "amount" ->
         Rebody(b, <<WithID([b.Transactions[1] EXCEPT !.Amount = @ + 1])>>)
    [] kind = "empty" -> Rebody(b, <<>>)
    [] OTHER -> b

TamperKinds ==
  {"parent", "height", "difficulty", "old", "merkle", "hash", "powhash", "pow",
   "nocoinbase", "twocoinbase", "coinbaselast", "amount", "empty"}

\* Bodies (besides the coinbase) and spacings of the honest blocks on offer.
Shapes ==
  {[delta |-> Fast, transfers |-> <<>>],
   [delta |-> Slow, transfers |-> <<Transfer1>>]}

StoredBlocks(st) == {st.blocks[h] : h \in DOMAIN st.blocks}

\* b and its stored ancestors up to n blocks back.
RECURSIVE Back(_, _, _)
Back(st, b, n) ==
  IF n = 0 \/ b.Header.PrevBlockHash \notin DOMAIN st.blocks THEN {b}
  ELSE {b} \cup Back(st, st.blocks[b.Header.PrevBlockHash], n - 1)

\* The stored blocks no stored block builds on.
Heads(st) ==
  LET parents == {st.blocks[h].Header.PrevBlockHash : h \in DOMAIN st.blocks}
  IN {st.blocks[h] : h \in DOMAIN st.blocks \ parents}

\* Parents of the blocks on offer: the head of every branch, and the tip with
\* its ancestors up to MaxForkDepth blocks back.
Recent(st) == Heads(st) \cup Back(st, st.tip[1], MaxForkDepth)

Offer(b, now) == [block |-> b, now |-> now]

\* New honest blocks on recent parents, accepted when the clock reads their
\* own timestamp.
ChildrenOf(st, p) ==
  LET difficulty == RequiredDifficulty(st, p).diff
  IN {Offer(MineBlock(p, difficulty, p.Header.Timestamp + sh.delta, sh.transfers),
            p.Header.Timestamp + sh.delta) : sh \in Shapes}

HonestOffers(st, parents) == UNION {ChildrenOf(st, p) : p \in parents}

\* Blocks sent a second time.
RepeatOffers(parents) == {Offer(b, b.Header.Timestamp) : b \in parents}

\* Rule-breaking children of the tip, and an honest child seen too early: its
\* timestamp is half a second more than two hours ahead of the clock.
BadOffers(st) ==
  LET p == st.tip[1]
      b == Child(st, p, [delta |-> Fast, transfers |-> <<>>])
  IN {Offer(Tamper(b, k), b.Header.Timestamp) : k \in TamperKinds}
       \cup {Offer(b, b.Header.Timestamp - MaxFutureBlockTime - 1)}

\* ------------------------------------------------------------------------
\* Start-up: NewChain on an empty store, or on the store of an earlier run
\* ------------------------------------------------------------------------

\* st after AddBlock has accepted, one on top of the other from parent on,
\* the honest blocks that shapes describes.
RECURSIVE Grow(_, _, _)
Grow(st, parent, shapes) ==
  IF Len(shapes) = 0 THEN st
  ELSE LET b == Child(st, parent, Head(shapes))
           r == AddBlockStep(st, b, b.Header.Timestamp)
       IN IF r.err = "nil" THEN Grow(r.st, b, Tail(shapes)) ELSE st

\* The earlier run: genesis at time 0 with difficulty 1; a main chain of 24
\* blocks 1800 s apart, then one block after 50000 s and two more after 1800 s
\* each (heights 25 to 27), the last one carrying Transfer1; a side chain from
\* genesis whose first block came after 50000 s, followed by 24 blocks 1800 s
\* apart (heights 2 to 25); and a side block at height 26 that came 50000 s
\* after the main chain's block at height 25.
LoadedWith(transfers) ==
  LET s0 == InitGenesisStep(EmptyState, Alice, 1, 0).st
      g == s0.tip[1]
      s1 == Grow(s0, g, [i \in 1..27 |->
                           [delta |-> IF i = 25 THEN Slow ELSE Fast,
                            transfers |-> IF i = 27 THEN transfers ELSE <<>>]])
      s2 == Grow(s1, g, [i \in 1..25 |->
                           [delta |-> IF i = 1 THEN Slow ELSE Fast,
                            transfers |-> <<>>]])
  IN Grow(s2, s2.blocks[s2.canon[25]], <<[delta |-> Slow, transfers |-> <<>>]>>)

LoadedState == LoadedWith(<<Transfer1>>)

Offers(st) ==
  IF st.tip = <<>> THEN {Offer(GenesisBlock(Alice, 1, 0), 0)}
  ELSE LET parents == Recent(st)
       IN HonestOffers(st, parents) \cup RepeatOffers(parents) \cup BadOffers(st)

\* Transactions submitted to the mempool.
TxOffers == {Transfer1, Transfer2}

\* Parameters of InitGenesis on a fresh node.  The node's configured genesis
\* miner is the all-zero address; tests use a keyed one.
GenesisMiners == {Alice, ZeroHash}

GenesisDifficulties == {0, 1, 257}

GenesisTime == 2 * 1000

\* ------------------------------------------------------------------------
\* Specification
\* ------------------------------------------------------------------------

Called(op, err) == [op |-> op, err |-> err]

\* A node without peers: nothing is connected and nothing is in flight.
Unconnected == [remote |-> <<>>, toRemote |-> <<>>, toLocal |-> <<>>, forwards |-> 0]

\* The engine and the mempool of the node start as st.
EngineStartsAs(st) ==
  /\ blocks = st.blocks
  /\ canon = st.canon
  /\ cdf = st.cdf
  /\ head = st.head
  /\ tip = st.tip
  /\ pool = st.pool
  /\ txs = st.txs
  /\ subscribers = st.subscribers
  /\ mu = st.mu
  /\ last = Called("NewChain", "nil")
  /\ added = 0

\* The goroutines that call into the engine and the mempool.
Threads == {"block", "client"}

NoThread == "none"

\* No call is in progress and both locks are free.
Quiet ==
  [pc |-> [t \in Threads |-> "idle"], chainW |-> NoThread, poolW |-> NoThread,
   adding |-> [t \in Threads |-> <<>>], toRemove |-> <<>>, toReturn |-> <<>>]

\* No miner runs.
NoSearch == <<>>

NoLoop == <<>>

StartsAs(st) ==
  /\ net = Unconnected
  /\ calls = Quiet
  /\ search = NoSearch
  /\ loop = NoLoop
  /\ EngineStartsAs(st)

\* The engine and the mempool of the node become st.
EngineBecomes(st) ==
  /\ blocks' = st.blocks
  /\ canon' = st.canon
  /\ cdf' = st.cdf
  /\ head' = st.head
  /\ tip' = st.tip
  /\ pool' = st.pool
  /\ txs' = st.txs
  /\ subscribers' = st.subscribers
  /\ mu' = st.mu

Becomes(st) == EngineBecomes(st) /\ UNCHANGED outside

Init == \E st \in {EmptyState, LoadedState} : StartsAs(st)

InitFresh == StartsAs(EmptyState)

InitGenesis ==
  /\ mu = "free"
  /\ \E minerAddress \in GenesisMiners, difficulty \in GenesisDifficulties :
       \E r \in {InitGenesisStep(Cur, minerAddress, difficulty, GenesisTime)} :
          Becomes(r.st) /\ last' = Called("InitGenesis", r.err)
  /\ UNCHANGED added

AddBlock ==
  /\ mu = "free"
  /\ \E o \in Offers(Cur) :
       \E r \in {AddBlockStep(Cur, o.block, o.now)} :
          /\ Becomes(r.st)
          /\ last' = Called("AddBlock", r.err)
          /\ added' = added + Cardinality(DOMAIN r.st.blocks \ DOMAIN blocks)
          /\ added' <= MaxBlocks

SetMempool ==
  /\ mu = "free"
  /\ ~pool
  /\ pool' = TRUE
  /\ UNCHANGED <<blocks, canon, cdf, head, tip, txs, subscribers, mu, last, added>>
  /\ UNCHANGED outside

SubscribeTip ==
  /\ Len(subscribers) < MaxSubs
  /\ subscribers' = Append(subscribers, <<>>)
  /\ UNCHANGED <<blocks, canon, cdf, head, tip, pool, txs, mu, last, added>>
  /\ UNCHANGED outside

\* A subscriber takes the value out of its channel.
Receive ==
  \E i \in 1..Len(subscribers) :
    /\ Len(subscribers[i]) > 0
    /\ subscribers' = [subscribers EXCEPT ![i] = Tail(@)]
    /\ UNCHANGED <<blocks, canon, cdf, head, tip, pool, txs, mu, last, added>>
  /\ UNCHANGED outside

\* Mempool.AddTransaction called by a client or a peer.
SubmitTx ==
  /\ mu = "free"
  /\ \E tx \in TxOffers :
       \E r \in {AddTransaction(Cur, tx, FALSE)} :
          Becomes(r.st) /\ last' = Called("AddTransaction", r.err)
  /\ UNCHANGED added

Next ==
  \/ InitGenesis
  \/ AddBlock
  \/ SetMempool
  \/ SubscribeTip
  \/ Receive
  \/ SubmitTx

Spec == Init /\ [][Next]_vars

SpecFresh == InitFresh /\ [][Next]_vars

\* ------------------------------------------------------------------------
\* The node with its mempool attached to the chain
\* ------------------------------------------------------------------------

\* Alice pays Bob 250000000: nonce 1 without fee, nonce 2 with fee 1.
Transfer3 == Signed(NewTransfer(Alice, Bob, 250000000, 0, 1))

Transfer4 == Signed(NewTransfer(Alice, Bob, 250000000, 1, 2))

\* Bob pays Alice: 3 with nonce 0, 1 with fee 1 and nonce 1, 1 with nonce 2.
Transfer5 == Signed(NewTransfer(Bob, Alice, 3, 0, 0))

Transfer6 == Signed(NewTransfer(Bob, Alice, 1, 1, 1))

Transfer7 == Signed(NewTransfer(Bob, Alice, 1, 0, 2))

\* Bob pays Alice 2^64 - 1 (written 0 - 1) with fee 1 and nonce 0.
Transfer8 == Signed(NewTransfer(Bob, Alice, 0 - 1, 1, 0))

PoolTxOffers ==
  {Transfer1, Transfer2, Transfer3, Transfer4, Transfer5, Transfer6,
   Transfer7, Transfer8}

\* What the miners put into their blocks.
PoolShapes ==
  {[delta |-> Fast, transfers |-> <<>>],
   [delta |-> Slow, transfers |-> <<Transfer1>>],
   [delta |-> Fast, transfers |-> <<Transfer5>>]}

PoolOffers(st) ==
  UNION {{Offer(Child(st, p, sh), p.Header.Timestamp + sh.delta) : sh \in PoolShapes}
           : p \in Recent(st)}

\* What the last main-chain block of the earlier run carried: one transfer,
\* or two.
LastBlockTransfers == {<<Transfer1>>, <<Transfer1, Transfer5>>}

\* NewChain on the store of an earlier run, NewMempool.
InitPool == \E transfers \in LastBlockTransfers : StartsAs(LoadedWith(transfers))

SubmitPoolTx ==
  /\ mu = "free"
  /\ \E tx \in PoolTxOffers :
       \E r \in {AddTransaction(Cur, tx, FALSE)} :
          Becomes(r.st) /\ last' = Called("AddTransaction", r.err)
  /\ UNCHANGED added

AddPoolBlock ==
  /\ mu = "free"
  /\ \E o \in PoolOffers(Cur) :
       \E r \in {AddBlockStep(Cur, o.block, o.now)} :
          /\ Becomes(r.st)
          /\ last' = Called("AddBlock", r.err)
          /\ added' = added + Cardinality(DOMAIN r.st.blocks \ DOMAIN blocks)
          /\ added' <= MaxBlocks

NextPool ==
  \/ SetMempool
  \/ SubmitPoolTx
  \/ AddPoolBlock

SpecPool == InitPool /\ [][NextPool]_vars

\* ------------------------------------------------------------------------
\* The node with a tip-change subscriber from start-up on
\* ------------------------------------------------------------------------

\* NewChain on the store of an earlier run, then SubscribeTip (the mining
\* loop subscribes before anything else).
InitSubs == StartsAs([LoadedState EXCEPT !.subscribers = <<<<>>>>])

AddTipBlock ==
  /\ mu = "free"
  /\ \E o \in Offers(Cur) :
       \E r \in {AddBlockStep(Cur, o.block, o.now)} :
          /\ Becomes(r.st)
          /\ last' = Called("AddBlock", r.err)
          /\ added' = added + Cardinality(DOMAIN r.st.blocks \ DOMAIN blocks)
          /\ added' <= MaxTipBlocks

NextSubs ==
  \/ AddTipBlock
  \/ Receive

SpecSubs == InitSubs /\ [][NextSubs]_vars

\* The subscriber keeps receiving: a value in its channel is taken out.
SpecSubsFair == SpecSubs /\ WF_vars(Receive)

\* ------------------------------------------------------------------------
\* The node and its clock: blocks that follow each other closely
\* ------------------------------------------------------------------------

\* Spacings between a block and its parent, in half seconds: half a second
\* back, none, half a second, one second, 1800 s.
ClockDeltas == {0 - 1, 0, 1, 2, Fast}

\* How far the node's clock is behind the block's timestamp when AddBlock
\* validates it, in half seconds: not at all, two hours, two hours and half a
\* second.
ClockLags == {0, MaxFutureBlockTime, MaxFutureBlockTime + 1}

ClockOffers(st) ==
  UNION {{Offer(Child(st, p, [delta |-> d, transfers |-> <<>>]),
                p.Header.Timestamp + d - lag) : d \in ClockDeltas, lag \in ClockLags}
           : p \in StoredBlocks(st)}

\* NewChain on a store that holds a genesis block of difficulty 1.
InitClock == StartsAs(InitGenesisStep(EmptyState, Alice, 1, GenesisTime).st)

AddClockBlock ==
  /\ mu = "free"
  /\ \E o \in ClockOffers(Cur) :
       \E r \in {AddBlockStep(Cur, o.block, o.now)} :
          /\ Becomes(r.st)
          /\ last' = Called("AddBlock", r.err)
          /\ added' = added + Cardinality(DOMAIN r.st.blocks \ DOMAIN blocks)
          /\ added' <= MaxClockBlocks

NextClock == AddClockBlock

SpecClock == InitClock /\ [][NextClock]_vars

\* ------------------------------------------------------------------------
\* p2p: two connected nodes gossiping blocks and transactions
\* ------------------------------------------------------------------------

MsgBlock(block) == [kind |-> "MsgBlock", Block |-> block]

MsgTx(tx) == [kind |-> "MsgTx", Tx |-> tx]

\* Server.Broadcast on a node whose only peer is the other node: the message
\* is sent to every peer, the one it came from included.  queue holds the
\* messages in flight to that peer.
Broadcast(queue, msg) == Append(queue, msg)

Without(queue, i) == SubSeq(queue, 1, i - 1) \o SubSeq(queue, i + 1, Len(queue))

\* Peer.handleMessage for MsgBlock and MsgTx on the node whose engine and
\* mempool are st: the call it makes, and whether it broadcasts the message.
handleMessage(st, msg, now) ==
  IF msg.kind = "MsgBlock"
  THEN LET r == AddBlockStep(st, msg.Block, now)
       IN [st |-> r.st, op |-> "AddBlock", err |-> r.err, gossip |-> r.err = "nil"]
  ELSE LET r == AddTransaction(st, msg.Tx, FALSE)
       IN [st |-> r.st, op |-> "AddTransaction", err |-> r.err,
           gossip |-> r.err = "nil"]

\* The clock of a node that handles msg.
HandledAt(msg) ==
  IF msg.kind = "MsgBlock" THEN msg.Block.Header.Timestamp ELSE 0

\* Transactions submitted to the node's RPC server.
GossipTxOffers == {Transfer3, Transfer5}

\* Two nodes that loaded the same chain, connected to each other.
InitGossip ==
  \E st \in {LoadedState} :
     /\ EngineStartsAs(st)
     /\ net = [remote |-> <<st>>, toRemote |-> <<>>, toLocal |-> <<>>, forwards |-> 0]
     /\ calls = Quiet
     /\ search = NoSearch
     /\ loop = NoLoop

\* The mining loop has found a block: AddBlock, then Broadcast.
MineAndBroadcast ==
  /\ mu = "free"
  /\ \E sh \in Shapes :
       \E b \in {Child(Cur, tip[1], [delta |-> sh.delta, transfers |-> <<>>])} :
          \E r \in {AddBlockStep(Cur, b, b.Header.Timestamp)} :
             /\ EngineBecomes(r.st)
             /\ last' = Called("AddBlock", r.err)
             /\ added' = added + Cardinality(DOMAIN r.st.blocks \ DOMAIN blocks)
             /\ added' <= MaxGossipBlocks
             /\ net' = IF r.err = "nil"
                       THEN [net EXCEPT !.toRemote = Broadcast(@, MsgBlock(b))]
                       ELSE net
  /\ UNCHANGED besidesNet

\* The RPC server's handleTx: AddTransaction, then Broadcast.
SubmitAndBroadcast ==
  /\ mu = "free"
  /\ \E tx \in GossipTxOffers :
       \E r \in {AddTransaction(Cur, tx, FALSE)} :
          /\ EngineBecomes(r.st)
          /\ last' = Called("AddTransaction", r.err)
          /\ net' = IF r.err = "nil"
                    THEN [net EXCEPT !.toRemote = Broadcast(@, MsgTx(tx))]
                    ELSE net
  /\ UNCHANGED <<added, calls, search, loop>>

\* The peer node reads a message from the connection and handles it.
RemoteHandle ==
  \E i \in 1..Len(net.toRemote) :
     \E h \in {handleMessage(net.remote[1], net.toRemote[i], HandledAt(net.toRemote[i]))} :
        /\ net' = [remote |-> <<h.st>>,
                   toRemote |-> Without(net.toRemote, i),
                   toLocal |-> IF h.gossip
                               THEN Broadcast(net.toLocal, net.toRemote[i])
                               ELSE net.toLocal,
                   forwards |-> net.forwards + IF h.gossip THEN 1 ELSE 0]
        /\ net'.forwards <= MaxForwards
        /\ UNCHANGED <<blocks, canon, cdf, head, tip, pool, txs, subscribers, mu,
                       last, added, calls, search, loop>>

\* The node reads a message from the connection and handles it.
LocalHandle ==
  /\ mu = "free"
  /\ \E i \in 1..Len(net.toLocal) :
       \E h \in {handleMessage(Cur, net.toLocal[i], HandledAt(net.toLocal[i]))} :
          /\ EngineBecomes(h.st)
          /\ last' = Called(h.op, h.err)
          /\ added' = added
          /\ net' = [net EXCEPT
                       !.toLocal = Without(@, i),
                       !.toRemote = IF h.gossip
                                    THEN Broadcast(@, net.toLocal[i])
                                    ELSE @,
                       !.forwards = @ + IF h.gossip THEN 1 ELSE 0]
          /\ net'.forwards <= MaxForwards
  /\ UNCHANGED besidesNet

NextGossip ==
  \/ MineAndBroadcast
  \/ SubmitAndBroadcast
  \/ RemoteHandle
  \/ LocalHandle

SpecGossip == InitGossip /\ [][NextGossip]_vars

\* ------------------------------------------------------------------------
\* Concurrent calls: AddBlock, Mempool.AddTransaction and GetAccountState
\* with the mempool attached as the chain's pool
\* ------------------------------------------------------------------------
\* A call runs in one step from one lock acquisition to the next: a step is
\* taken when the lock it starts with can be had.  Chain.mu is held for
\* writing by AddBlock from its start to its return, Mempool.mu by
\* RemoveTransactions for its duration and by AddTransaction from its start to
\* its return; GetAccountState takes Chain.mu for reading, which it gets when
\* nobody holds it for writing.

\* Transactions submitted by clients while blocks arrive.
LockTxOffers == {Transfer2, Transfer3, Transfer5, Transfer6}

\* The non-coinbase transactions of list whose id is not in newTxSet.
ToReturn(list, newTxSet) ==
  LET Eligible(tx) == tx.Type # TxTypeCoinbase /\ tx.ID \notin newTxSet
  IN SelectSeq(list, Eligible)

\* AddTransaction from its start up to its call of GetAccountState.
FirstChecks(pooled, tx) ==
  IF tx.ID \in DOMAIN pooled THEN "ErrTxAlreadyInMempool"
  ELSE IF ~Verify(tx.From, TxSerialize(tx), tx.Signature) THEN "ErrInvalidSignature"
  ELSE "continue"

\* NewChain on the store of an earlier run, NewMempool, SetMempool.
InitLocks ==
  \E st \in {LoadedState} :
     /\ EngineStartsAs([st EXCEPT !.pool = TRUE])
     /\ calls = Quiet
     /\ net = Unconnected
     /\ search = NoSearch
     /\ loop = NoLoop

\* AddBlock takes Chain.mu and runs up to its first call into the pool; it
\* returns there when the tip has not moved.
BeginAddBlock ==
  /\ calls.pc["block"] = "idle"
  /\ calls.chainW = NoThread
  /\ \E o \in PoolOffers(Cur) :
       \E r \in {AddBlockStep([Cur EXCEPT !.pool = FALSE], o.block, o.now)} :
          /\ added' = added + Cardinality(DOMAIN r.st.blocks \ DOMAIN blocks)
          /\ added' <= MaxLockBlocks
          /\ EngineBecomes([r.st EXCEPT !.pool = TRUE])
          /\ IF r.st.tip # tip
             THEN LET fp == findForkPaths(r.st, tip[1], r.st.tip[1])
                      txsToRemove == AllTxs(fp.newChain)
                      newTxSet == {txsToRemove[i].ID : i \in 1..Len(txsToRemove)}
                  IN /\ calls' = [calls EXCEPT
                                    !.pc["block"] = "remove",
                                    !.chainW = "block",
                                    !.toRemove = txsToRemove,
                                    !.toReturn = ToReturn(AllTxs(fp.oldChain), newTxSet)]
                     /\ last' = last
             ELSE /\ calls' = calls
                  /\ last' = Called("AddBlock", r.err)
  /\ UNCHANGED besidesCalls

\* reorganize calls pool.RemoveTransactions, which takes Mempool.mu.
PoolRemove ==
  /\ calls.pc["block"] = "remove"
  /\ calls.poolW = NoThread
  /\ txs' = RemoveTransactions(Cur, calls.toRemove).txs
  /\ calls' = [calls EXCEPT !.pc["block"] = "return", !.toRemove = <<>>]
  /\ UNCHANGED <<blocks, canon, cdf, head, tip, pool, subscribers, mu, last, added>>
  /\ UNCHANGED besidesCalls

\* reorganize calls pool.AddTransaction for the next transaction to return:
\* the call takes Mempool.mu and runs up to GetAccountState.
BlockReturnTx ==
  /\ calls.pc["block"] = "return"
  /\ calls.toReturn # <<>>
  /\ calls.poolW = NoThread
  /\ calls' = IF FirstChecks(txs, Head(calls.toReturn)) = "continue"
              THEN [calls EXCEPT !.pc["block"] = "wantchain",
                                 !.poolW = "block",
                                 !.adding["block"] = <<Head(calls.toReturn)>>]
              ELSE [calls EXCEPT !.toReturn = Tail(@)]
  /\ UNCHANGED <<blocks, canon, cdf, head, tip, pool, txs, subscribers, mu, last,
                 added>>
  /\ UNCHANGED besidesCalls

\* Nothing is left to return: reorganize and AddBlock return, Chain.mu is
\* released.
FinishAddBlock ==
  /\ calls.pc["block"] = "return"
  /\ calls.toReturn = <<>>
  /\ calls' = [calls EXCEPT !.pc["block"] = "idle", !.chainW = NoThread]
  /\ last' = Called("AddBlock", "nil")
  /\ UNCHANGED <<blocks, canon, cdf, head, tip, pool, txs, subscribers, mu, added>>
  /\ UNCHANGED besidesCalls

\* A client (the RPC server, a peer handler) calls Mempool.AddTransaction:
\* the call takes Mempool.mu and runs up to GetAccountState.
BeginAddTransaction ==
  /\ calls.pc["client"] = "idle"
  /\ calls.poolW = NoThread
  /\ \E tx \in LockTxOffers :
       IF FirstChecks(txs, tx) = "continue"
       THEN /\ calls' = [calls EXCEPT !.pc["client"] = "wantchain",
                                      !.poolW = "client",
                                      !.adding["client"] = <<tx>>]
            /\ last' = last
       ELSE /\ calls' = calls
            /\ last' = Called("AddTransaction", FirstChecks(txs, tx))
  /\ UNCHANGED <<blocks, canon, cdf, head, tip, pool, txs, subscribers, mu, added>>
  /\ UNCHANGED besidesCalls

\* GetAccountState gets Chain.mu for reading; AddTransaction runs to its
\* return and releases Mempool.mu.
FinishAddTransaction ==
  \E t \in Threads :
     /\ calls.pc[t] = "wantchain"
     /\ calls.chainW = NoThread
     /\ \E r \in {AddTransaction(Cur, calls.adding[t][1], FALSE)} :
          /\ txs' = r.st.txs
          /\ IF t = "client"
             THEN /\ calls' = [calls EXCEPT !.pc[t] = "idle", !.poolW = NoThread,
                                            !.adding[t] = <<>>]
                  /\ last' = Called("AddTransaction", r.err)
             ELSE /\ calls' = [calls EXCEPT !.pc[t] = "return", !.poolW = NoThread,
                                            !.adding[t] = <<>>,
                                            !.toReturn = Tail(@)]
                  /\ last' = last
     /\ UNCHANGED <<blocks, canon, cdf, head, tip, pool, subscribers, mu, added>>
     /\ UNCHANGED besidesCalls

\* GetAccountState called on its own (the RPC server's balance query).
ReadAccount ==
  /\ calls.chainW = NoThread
  /\ last' = Called("GetAccountState", "nil")
  /\ UNCHANGED <<blocks, canon, cdf, head, tip, pool, txs, subscribers, mu, added>>
  /\ UNCHANGED outside

NextLocks ==
  \/ BeginAddBlock
  \/ PoolRemove
  \/ BlockReturnTx
  \/ FinishAddBlock
  \/ BeginAddTransaction
  \/ FinishAddTransaction
  \/ ReadAccount

SpecLocks == InitLocks /\ [][NextLocks]_vars

\* ------------------------------------------------------------------------
\* The miner's parallel search (Miner.solveBlock and the loop that calls it)
\* ------------------------------------------------------------------------

\* The search goroutines: worker i of NumCPU.
Workers == 0..(NumCPU - 1)

\* The nonce rand.Uint64() gives the template.
BaseNonces == {0, 1}

\* The difficulty of the chain the miner works on.
SearchDifficulties == {0, 1}

\* Miner.createBlockTemplate at time now; the mempool is empty.  Hash and
\* PowHash are left at their zero values.
createBlockTemplate(parent, difficulty, now, baseNonce, pending) ==
  LET timestamp == IF now > parent.Header.Timestamp THEN now
                   ELSE parent.Header.Timestamp + 2
      coinbase == WithID([ID |-> ZeroHash, Type |-> TxTypeCoinbase,
                          Timestamp |-> timestamp, From |-> ZeroHash,
                          To |-> Alice,
                          Amount |-> BlockReward(parent.Header.Height + 1),
                          Fee |-> 0, Nonce |-> 0, Signature |-> <<>>])
      body == <<coinbase>> \o pending
  IN [Header |-> [Version |-> 1, Height |-> parent.Header.Height + 1,
                  Timestamp |-> timestamp, PrevBlockHash |-> parent.Hash,
                  MerkleRoot |-> ComputeMerkleRoot(body),
                  Difficulty |-> difficulty, Nonce |-> baseNonce],
      Transactions |-> body, Hash |-> ZeroHash, PowHash |-> ZeroDigest]

\* solveBlock has started its workers on block: worker i holds a copy of the
\* header with nonce baseNonce + i; resultCh (capacity 1) is empty; the
\* context is live; the caller waits in its select.  The mining loop runs,
\* m.quit is open and nobody has called Stop.
Searching(block) ==
  [block |-> block, resultCh |-> 0, ctx |-> "live", caller |-> "solving",
   looping |-> TRUE, stop |-> "idle",
   worker |-> [i \in Workers |->
                 [pc |-> "search", Nonce |-> block.Header.Nonce + i,
                  hash |-> ZeroDigest]]]

\* The header worker i hashes: its copy of the template's header.
WorkerHeader(i) == [search.block.Header EXCEPT !.Nonce = search.worker[i].Nonce]

\* A node whose chain is a genesis block of difficulty d, and whose mining
\* loop has built a template on it and started the search.
InitSearch ==
  \E d \in SearchDifficulties, baseNonce \in BaseNonces :
     \E st \in {InitGenesisStep(EmptyState, Alice, d, GenesisTime).st} :
        /\ EngineStartsAs(st)
        /\ net = Unconnected
        /\ calls = Quiet
        /\ loop = NoLoop
        /\ \E pending \in GetPendingTransactions(st, 1000) :
              search = Searching(createBlockTemplate(st.tip[1], d, GenesisTime + Fast,
                                                     baseNonce, pending))

\* One turn of worker i's loop.  A ready case of the select is taken (any
\* one of them when both are ready), the default only when none is: the
\* worker hashes its header and either goes on to publish or strides on.
\* A worker that has reached MaxNonce without a solution stays where it is:
\* it goes on hashing nonces that the model does not tell apart.
WorkerStep(i) ==
  /\ search # NoSearch
  /\ search.worker[i].pc = "search"
  /\ \/ /\ search.ctx = "done"
        /\ search' = [search EXCEPT !.worker[i].pc = "stopped"]
     \/ /\ search.resultCh > 0
        /\ search' = [search EXCEPT !.resultCh = @ - 1,
                                    !.worker[i].pc = "stopped"]
     \/ /\ search.ctx = "live"
        /\ search.resultCh = 0
        /\ \E hash \in {HasherHash(HeaderSerialize(WorkerHeader(i)))} :
              IF MeetsDifficulty(hash, WorkerHeader(i).Difficulty)
              THEN search' = [search EXCEPT !.worker[i].pc = "send",
                                            !.worker[i].hash = hash]
              ELSE /\ search.worker[i].Nonce + NumCPU <= MaxNonce
                   /\ search' = [search EXCEPT !.worker[i].Nonce = @ + NumCPU]
  /\ UNCHANGED <<blocks, canon, cdf, head, tip, pool, txs, subscribers, mu,
                 last, added>>
  /\ UNCHANGED besidesSearch

\* The worker's non-blocking send of the success token.
WorkerSend(i) ==
  /\ search # NoSearch
  /\ search.worker[i].pc = "send"
  /\ IF search.resultCh = 0
     THEN search' = [search EXCEPT !.resultCh = 1, !.worker[i].pc = "nonce"]
     ELSE search' = [search EXCEPT !.worker[i].pc = "lost"]
  /\ UNCHANGED <<blocks, canon, cdf, head, tip, pool, txs, subscribers, mu,
                 last, added>>
  /\ UNCHANGED besidesSearch

\* The three assignments that follow a successful send, one at a time:
\* block.Header.Nonce, block.Hash (computed from the shared block), and
\* block.PowHash.
WorkerWrite(i) ==
  /\ search # NoSearch
  /\ LET w == search.worker[i]
     IN CASE w.pc = "nonce" ->
               search' = [search EXCEPT !.block.Header.Nonce = w.Nonce,
                                        !.worker[i].pc = "hash"]
          [] w.pc = "hash" ->
               search' = [search EXCEPT !.block.Hash = ComputeHash(search.block),
                                        !.worker[i].pc = "pow"]
          [] w.pc = "pow" ->
               search' = [search EXCEPT !.block.PowHash = w.hash,
                                        !.worker[i].pc = "won"]
          [] OTHER -> FALSE
  /\ UNCHANGED <<blocks, canon, cdf, head, tip, pool, txs, subscribers, mu,
                 last, added>>
  /\ UNCHANGED besidesSearch

\* The select that ends solveBlock: a token makes it return true, after
\* which the job hands the template to foundBlockCh; a cancelled context
\* makes it return false.
SolveReturns ==
  /\ search # NoSearch
  /\ search.caller = "solving"
  /\ \/ /\ search.resultCh > 0
        /\ search' = [search EXCEPT !.resultCh = @ - 1, !.caller = "found"]
     \/ /\ search.ctx = "done"
        /\ search' = [search EXCEPT !.caller = "gaveup"]
  /\ UNCHANGED <<blocks, canon, cdf, head, tip, pool, txs, subscribers, mu,
                 last, added>>
  /\ UNCHANGED besidesSearch

\* The mining loop receives the template from foundBlockCh and calls
\* AddBlock with the block as it is at that moment.
\* The loop's branch for a found block without the removal from the
\* mempool.
AddFoundKeepingPool(st, block) ==
  AddBlockStep(st, block, block.Header.Timestamp)

\* The loop's branch for a found block: AddBlock, and when it returns nil,
\* RemoveTransactions of all transactions of the block but the coinbase.
AddFound(st, block) ==
  LET r == AddBlockStep(st, block, block.Header.Timestamp)
  IN IF r.err = "nil" /\ Len(block.Transactions) > 1
     THEN [r EXCEPT !.st = RemoveTransactions(r.st, Tail(block.Transactions))]
     ELSE r

SubmitFound ==
  /\ search # NoSearch
  /\ search.looping
  /\ search.caller = "found"
  /\ search.ctx = "live"
  /\ mu = "free"
  /\ \E r \in {AddFound(Cur, search.block)} :
        /\ EngineBecomes(r.st)
        /\ last' = Called("AddBlock", r.err)
        /\ added' = added + Cardinality(DOMAIN r.st.blocks \ DOMAIN blocks)
  /\ search' = [search EXCEPT !.caller = "submitted"]
  /\ UNCHANGED besidesSearch

\* The mining loop's next turn cancels the context of the search: after it
\* has submitted the block, or because the tip changed in the meantime.
CancelSearch ==
  /\ search # NoSearch
  /\ search.looping
  /\ search.ctx = "live"
  /\ search' = [search EXCEPT !.ctx = "done"]
  /\ UNCHANGED <<blocks, canon, cdf, head, tip, pool, txs, subscribers, mu,
                 last, added>>
  /\ UNCHANGED besidesSearch

\* Miner.Stop closes m.quit and waits for the loop.
Stop ==
  /\ search # NoSearch
  /\ search.stop = "idle"
  /\ search' = [search EXCEPT !.stop = "waiting"]
  /\ UNCHANGED <<blocks, canon, cdf, head, tip, pool, txs, subscribers, mu,
                 last, added>>
  /\ UNCHANGED besidesSearch

\* Stop with the wait left out.
StopWithoutWait ==
  /\ search # NoSearch
  /\ search.stop = "idle"
  /\ search' = [search EXCEPT !.stop = "returned"]
  /\ UNCHANGED <<blocks, canon, cdf, head, tip, pool, txs, subscribers, mu,
                 last, added>>
  /\ UNCHANGED besidesSearch

\* The select of the loop takes the closed m.quit: the loop returns, its
\* deferred functions cancel the context and release the wait group.
LoopQuits ==
  /\ search # NoSearch
  /\ search.looping
  /\ search.stop = "waiting"
  /\ search' = [search EXCEPT !.looping = FALSE, !.ctx = "done"]
  /\ UNCHANGED <<blocks, canon, cdf, head, tip, pool, txs, subscribers, mu,
                 last, added>>
  /\ UNCHANGED besidesSearch

\* m.wg.Wait() in Stop returns once the loop has released the wait group.
StopReturns ==
  /\ search # NoSearch
  /\ search.stop = "waiting"
  /\ ~search.looping
  /\ search' = [search EXCEPT !.stop = "returned"]
  /\ UNCHANGED <<blocks, canon, cdf, head, tip, pool, txs, subscribers, mu,
                 last, added>>
  /\ UNCHANGED besidesSearch

NextSearch ==
  \/ \E i \in Workers : WorkerStep(i)
  \/ \E i \in Workers : WorkerSend(i)
  \/ \E i \in Workers : WorkerWrite(i)
  \/ SolveReturns
  \/ SubmitFound
  \/ CancelSearch
  \/ Stop
  \/ LoopQuits
  \/ StopReturns

SpecSearch == InitSearch /\ [][NextSearch]_vars

\* The loop has a found block to submit: what ENABLED <<SubmitFound>>_vars
\* comes to, since AddBlock answers every call and the step changes
\* search.caller.
HasFoundToSubmit ==
  /\ search # NoSearch
  /\ search.looping
  /\ search.caller = "found"
  /\ search.ctx = "live"
  /\ mu = "free"

\* WF_vars(SubmitFound), with its enabling condition written out.
SubmitFoundFair == []<>(~HasFoundToSubmit) \/ []<><<SubmitFound>>_vars

\* The turn of the loop that follows a submitted block.
NextTurn == search # NoSearch /\ search.caller = "submitted" /\ CancelSearch

\* The goroutines are scheduled: every worker takes its turns, solveBlock's
\* select takes a ready case, the loop submits a block it has received, goes
\* round after it and takes the closed m.quit, and Stop's wait ends.  Nothing
\* forces the tip to change or Stop to be called.
SpecSearchFair ==
  /\ SpecSearch
  /\ \A i \in Workers :
        WF_vars(WorkerStep(i)) /\ WF_vars(WorkerSend(i)) /\ WF_vars(WorkerWrite(i))
  /\ WF_vars(SolveReturns)
  /\ SubmitFoundFair
  /\ WF_vars(NextTurn)
  /\ WF_vars(LoopQuits)
  /\ WF_vars(StopReturns)

\* ------------------------------------------------------------------------
\* The mining loop (Miner.miningLoop)
\* ------------------------------------------------------------------------

\* A loop that never cancels.
CancelNoJob(jobs) == jobs

\* cancel(): the context of every job started so far is done.
CancelJobs(jobs) == {[j EXCEPT !.ctx = "done"] : j \in jobs}

\* A job goroutine just started on parent: it has not built its template,
\* and its search has not reported success.
StartedOn(parent) ==
  [parent |-> parent, ctx |-> "live", template |-> <<>>, solved |-> FALSE]

\* The loop has subscribed to tip changes and is about to read the tip.
LoopStarted == [pc |-> "top", jobs |-> {}, foundBlockCh |-> <<>>]

\* NewChain on the store of an earlier run; the mining loop has called
\* SubscribeTip: tipCh is the first subscriber's channel.
InitMiner ==
  \E st \in {[LoadedState EXCEPT !.subscribers = <<<<>>>>]} :
     /\ EngineStartsAs(st)
     /\ net = Unconnected
     /\ calls = Quiet
     /\ search = NoSearch
     /\ loop = LoopStarted

\* The head of the loop: read the tip, cancel the previous context, make a
\* new foundBlockCh and start the job on the tip that was read.
LoopTop ==
  /\ loop # NoLoop
  /\ loop.pc = "top"
  /\ loop' = [pc |-> "select",
              jobs |-> CancelJobs(loop.jobs) \cup {StartedOn(tip[1])},
              foundBlockCh |-> <<>>]
  /\ UNCHANGED <<blocks, canon, cdf, head, tip, pool, txs, subscribers, mu,
                 last, added>>
  /\ UNCHANGED besidesLoop

\* The job computes the difficulty through the canonical index as it is now
\* and builds its template; on an error it ends without a search.  (A job
\* whose context is done by now ends in JobStops.)
JobTemplate ==
  /\ loop # NoLoop
  /\ \E j \in loop.jobs :
        /\ j.ctx = "live"
        /\ j.template = <<>>
        /\ \E d \in {RequiredDifficultyByIndex(Cur, j.parent)} :
              \E pending \in GetPendingTransactions(Cur, 1000) :
                 loop' = [loop EXCEPT !.jobs =
                   IF d.err # "nil" THEN @ \ {j}
                   ELSE (@ \ {j}) \cup
                        {[j EXCEPT !.template =
                            <<createBlockTemplate(j.parent, d.diff,
                                                  j.parent.Header.Timestamp + Fast,
                                                  0, pending)>>]}]
  /\ UNCHANGED <<blocks, canon, cdf, head, tip, pool, txs, subscribers, mu,
                 last, added>>
  /\ UNCHANGED besidesLoop

\* solveBlock returns true in the job whose context is live, and the job
\* hands the solved template to foundBlockCh.  The other workers of the
\* search go on until the context is cancelled.
JobSolves ==
  /\ loop # NoLoop
  /\ added < MaxMinerBlocks
  /\ loop.foundBlockCh = <<>>
  /\ \E j \in loop.jobs :
        /\ j.ctx = "live"
        /\ j.template # <<>>
        /\ ~j.solved
        /\ loop' = [loop EXCEPT
                      !.jobs = (@ \ {j}) \cup {[j EXCEPT !.solved = TRUE]},
                      !.foundBlockCh = <<Seal(j.template[1].Header,
                                              j.template[1].Transactions)>>]
  /\ UNCHANGED <<blocks, canon, cdf, head, tip, pool, txs, subscribers, mu,
                 last, added>>
  /\ UNCHANGED besidesLoop

\* In a job whose context is done the workers leave their loops as soon as
\* they are started, and solveBlock, if it has not returned yet, returns
\* false: the job ends.
JobStops ==
  /\ loop # NoLoop
  /\ \E j \in loop.jobs :
        /\ j.ctx = "done"
        /\ loop' = [loop EXCEPT !.jobs = @ \ {j}]
  /\ UNCHANGED <<blocks, canon, cdf, head, tip, pool, txs, subscribers, mu,
                 last, added>>
  /\ UNCHANGED besidesLoop

\* The select of the loop takes a tip from tipCh; the loop goes round.
LoopWake ==
  /\ loop # NoLoop
  /\ loop.pc = "select"
  /\ Len(subscribers[1]) > 0
  /\ subscribers' = [subscribers EXCEPT ![1] = Tail(@)]
  /\ loop' = [loop EXCEPT !.pc = "top"]
  /\ UNCHANGED <<blocks, canon, cdf, head, tip, pool, txs, mu, last, added>>
  /\ UNCHANGED besidesLoop

\* The select of the loop takes the found block and calls AddBlock; the loop
\* goes round whatever AddBlock answers.
LoopFound ==
  /\ loop # NoLoop
  /\ loop.pc = "select"
  /\ loop.foundBlockCh # <<>>
  /\ mu = "free"
  /\ \E block \in {loop.foundBlockCh[1]} :
        \E r \in {AddFound(Cur, block)} :
           /\ EngineBecomes(r.st)
           /\ last' = Called("AddBlock", r.err)
           /\ added' = added + Cardinality(DOMAIN r.st.blocks \ DOMAIN blocks)
  /\ loop' = [loop EXCEPT !.pc = "top", !.foundBlockCh = <<>>]
  /\ UNCHANGED besidesLoop

\* What the peers send while the miner runs: an empty honest child, 1800 s
\* after its parent, of the tip and of every branch head at most one block
\* below the tip.
MinerOffers(st) ==
  LET parents == {p \in Heads(st) : p.Header.Height + 1 >= TipHeight(st)}
  IN {Offer(b, b.Header.Timestamp) :
        b \in {Child(st, p, [delta |-> Fast, transfers |-> <<>>]) : p \in parents}}

\* AddBlock called by a peer handler while the miner runs.
PeerBlock ==
  /\ mu = "free"
  /\ \E o \in MinerOffers(Cur) :
       \E r \in {AddBlockStep(Cur, o.block, o.now)} :
          /\ Becomes(r.st)
          /\ last' = Called("AddBlock", r.err)
          /\ added' = added + Cardinality(DOMAIN r.st.blocks \ DOMAIN blocks)
          /\ added' <= MaxMinerBlocks

\* What the job goroutines do without finding a block.
JobsRun == JobTemplate \/ JobStops

NextMiner ==
  \/ LoopTop
  \/ JobTemplate
  \/ JobSolves
  \/ JobStops
  \/ LoopWake
  \/ LoopFound
  \/ PeerBlock

SpecMiner == InitMiner /\ [][NextMiner]_vars

\* The select of the loop has a found block to take.  This is what
\* ENABLED <<LoopFound>>_vars comes to: AddBlock answers every call, and the
\* step changes loop.pc.
LoopHasFound ==
  loop # NoLoop /\ loop.pc = "select" /\ loop.foundBlockCh # <<>> /\ mu = "free"

\* WF_vars(LoopFound), with its enabling condition written out.
LoopFoundFair == []<>(~LoopHasFound) \/ []<><<LoopFound>>_vars

\* The goroutines of the miner are scheduled: the loop takes the step it is
\* at, a job builds its template and notices a cancelled context.  Nothing
\* forces a block to be found or a peer to send one.
SpecMinerFair ==
  /\ SpecMiner
  /\ WF_vars(LoopTop)
  /\ WF_vars(LoopWake)
  /\ LoopFoundFair
  /\ WF_vars(JobsRun)

\* ------------------------------------------------------------------------
\* The store, write by write: InitGenesis and AddBlock between their store
\* calls, and a node that stops and is opened again on the same store
\* ------------------------------------------------------------------------

\* NewChain on the store of st: the tip is the block the head pointer names;
\* mempool, subscribers and lock are new.
NewChain(st) ==
  [st EXCEPT !.tip = IF st.head = <<>> THEN <<>>
                     ELSE StoreGetBlockByHash(st, st.head[1]).block,
             !.pool = FALSE, !.txs = EmptyFcn, !.subscribers = <<>>,
             !.mu = "free"]

\* The canonical index writes of reorganize, in the order of newChain.
IndexWrites(chain) ==
  [i \in 1..Len(chain) |->
     [op |-> "SetCanonical", height |-> chain[i].Header.Height,
      hash |-> chain[i].Hash]]

\* What reorganize writes, in its order: the index of the new branch, then
\* c.tip, then the head pointer.
ReorganizeWrites(st, newTip) ==
  IndexWrites(findForkPaths(st, st.tip[1], newTip).newChain)
    \o <<[op |-> "tip", block |-> newTip],
         [op |-> "SaveHead", hash |-> newTip.Hash]>>

\* Steps 7 and 8 of AddBlock with the cumulative difficulty saved last.
AddBlockWritesDifficultyLast(st, block, parent) ==
  LET newCDF == NewCDF(GetCumulativeDifficulty(st, parent.Hash).cd, block)
      tipCDF == GetCumulativeDifficulty(st, st.tip[1].Hash).cd
  IN <<[op |-> "SaveBlock", block |-> block]>>
       \o (IF HeavierThanTip(newCDF, tipCDF, block, st.tip[1])
           THEN ReorganizeWrites(st, block) ELSE <<>>)
       \o <<[op |-> "SaveCumulativeDifficulty", hash |-> block.Hash,
             cd |-> newCDF]>>

\* Steps 7 and 8 of AddBlock for a block that passed validation: the block,
\* its cumulative difficulty and, when it beats the tip, what reorganize
\* writes.
AddBlockWrites(st, block, parent) ==
  LET newCDF == NewCDF(GetCumulativeDifficulty(st, parent.Hash).cd, block)
      tipCDF == GetCumulativeDifficulty(st, st.tip[1].Hash).cd
  IN <<[op |-> "SaveBlock", block |-> block],
       [op |-> "SaveCumulativeDifficulty", hash |-> block.Hash, cd |-> newCDF]>>
       \o (IF HeavierThanTip(newCDF, tipCDF, block, st.tip[1])
           THEN ReorganizeWrites(st, block) ELSE <<>>)

\* What InitGenesis writes after it has validated the block.
GenesisWrites(block) ==
  <<[op |-> "SaveBlock", block |-> block],
    [op |-> "SetCanonical", height |-> 0, hash |-> block.Hash],
    [op |-> "SaveCumulativeDifficulty", hash |-> block.Hash,
     cd |-> block.Header.Difficulty],
    [op |-> "SaveHead", hash |-> block.Hash],
    [op |-> "tip", block |-> block]>>

\* One write applied.
ApplyWrite(st, w) ==
  CASE w.op = "SaveBlock" -> SaveBlock(st, w.block)
    [] w.op = "SaveCumulativeDifficulty" ->
         SaveCumulativeDifficulty(st, w.hash, w.cd)
    [] w.op = "SetCanonical" -> SetCanonical(st, w.height, w.hash)
    [] w.op = "SaveHead" -> SaveHead(st, w.hash)
    [] w.op = "tip" -> [st EXCEPT !.tip = <<w.block>>]

\* No call is between two writes.  goal is what the call as a whole makes
\* of the state it started in, once a call has run to its end.
NoWrites == [pending |-> <<>>, goal |-> <<>>, reopened |-> FALSE]

\* NewChain on an empty store, or on the store of an earlier run.
InitWrites ==
  \E st \in {EmptyState, LoadedState} :
     /\ EngineStartsAs(st)
     /\ net = Unconnected
     /\ calls = NoWrites
     /\ search = NoSearch
     /\ loop = NoLoop

\* InitGenesis up to its first store write.
BeginGenesisWrites ==
  /\ calls.pending = <<>>
  /\ tip = <<>>
  /\ \E timestamp \in {GenesisTime, GenesisTime + Fast} :
        \E r \in {InitGenesisStep(Cur, Alice, 1, timestamp)} :
           /\ r.err = "nil"
           /\ calls' = [pending |-> GenesisWrites(r.st.tip[1]), goal |-> <<r.st>>,
                        reopened |-> FALSE]
  /\ last' = Called("InitGenesis", "nil")
  /\ UNCHANGED <<blocks, canon, cdf, head, tip, pool, txs, subscribers, mu, added>>
  /\ UNCHANGED besidesCalls

\* AddBlock up to its first store write, for a block that passes every check.
BeginAddBlockWrites ==
  /\ calls.pending = <<>>
  /\ tip # <<>>
  /\ added < MaxWriteBlocks
  /\ \E o \in MinerOffers(Cur) :
        \E r \in {AddBlockStep(Cur, o.block, o.now)} :
           /\ r.err = "nil"
           /\ o.block.Hash \notin DOMAIN blocks
           /\ calls' = [pending |-> AddBlockWrites(Cur, o.block,
                                      blocks[o.block.Header.PrevBlockHash]),
                        goal |-> <<r.st>>, reopened |-> FALSE]
  /\ last' = Called("AddBlock", "nil")
  /\ UNCHANGED <<blocks, canon, cdf, head, tip, pool, txs, subscribers, mu, added>>
  /\ UNCHANGED besidesCalls

\* The next store call (or assignment of c.tip) of the call in progress.
WriteNext ==
  /\ calls.pending # <<>>
  /\ EngineBecomes(ApplyWrite(Cur, Head(calls.pending)))
  /\ added' = added + (IF Head(calls.pending).op = "SaveBlock" THEN 1 ELSE 0)
  /\ calls' = [calls EXCEPT !.pending = Tail(@)]
  /\ UNCHANGED last
  /\ UNCHANGED besidesCalls

\* The node stops, between two writes or between two calls, and a new Chain
\* is opened on the store.
StopAndReopen ==
  /\ head # <<>>
  /\ EngineBecomes(NewChain(Cur))
  /\ calls' = [pending |-> <<>>, goal |-> <<>>, reopened |-> TRUE]
  /\ last' = Called("NewChain", "nil")
  /\ UNCHANGED added
  /\ UNCHANGED besidesCalls

NextWrites ==
  \/ BeginGenesisWrites
  \/ BeginAddBlockWrites
  \/ WriteNext
  \/ StopAndReopen

SpecWrites == InitWrites /\ [][NextWrites]_vars

\* ------------------------------------------------------------------------
\* consensus: CalcNextRequiredDifficulty at the full width of uint64
\* ------------------------------------------------------------------------

\* The width of BlockHeader.Difficulty.
UintBits == 64

\* A math/big integer that is not negative: its digits to the base 2^8,
\* least significant first, the highest digit not 0; zero is the empty
\* sequence.
BigBase == 2 ^ 8

\* The one element of a singleton: the element is computed once.
Only(S) == CHOOSE v \in S : TRUE

RECURSIVE NewInt(_)
NewInt(n) ==
  IF n = 0 THEN <<>>
  ELSE Only({<<k % BigBase>> \o NewInt(k \div BigBase) : k \in {n}})

\* digit * 2^(8 * k), and 2^(8 * k) - 1.
BigShift(digit, k) == [i \in 1..(k + 1) |-> IF i = k + 1 THEN digit ELSE 0]

BigOnes(k) == [i \in 1..k |-> BigBase - 1]

\* ^uint64(0)
MaxUint64 == BigOnes(UintBits \div 8)

RECURSIVE BigTrim(_)
BigTrim(x) ==
  IF x = <<>> THEN <<>>
  ELSE IF x[Len(x)] = 0
  THEN Only({BigTrim(y) : y \in {SubSeq(x, 1, Len(x) - 1)}})
  ELSE x

\* x * m + carry for an int m below 2^23.
RECURSIVE BigMulCarry(_, _, _)
BigMulCarry(x, m, carry) ==
  IF x = <<>> THEN NewInt(carry)
  ELSE Only({<<t % BigBase>> \o BigMulCarry(Tail(y), m, t \div BigBase) :
               <<t, y>> \in {<<Head(x) * m + carry, x>>}})

\* big.Int.Mul by an int64 that is not negative.
BigMul(x, m) == Only({BigTrim(BigMulCarry(y, m, 0)) : y \in {x}})

\* The same product kept in a uint64 register: the digits from 2^64 on
\* are lost.
BigMulUint64(x, m) ==
  Only({BigTrim(SubSeq(p, 1, IF Len(p) < UintBits \div 8 THEN Len(p)
                             ELSE UintBits \div 8)) :
          p \in {BigMul(x, m)}})

\* Long division by a positive int a below 2^23: quotient digits and
\* remainder.
RECURSIVE BigDivRem(_, _)
BigDivRem(x, a) ==
  IF x = <<>> THEN [q |-> <<>>, r |-> 0]
  ELSE Only({[q |-> <<(h.r * BigBase + Head(y)) \div a>> \o h.q,
              r |-> (h.r * BigBase + Head(y)) % a] :
               <<h, y>> \in {<<BigDivRem(Tail(x), a), x>>}})

\* big.Int.Div by a positive int64.
BigDiv(x, a) == Only({BigTrim(BigDivRem(y, a).q) : y \in {x}})

\* big.Int.IsUint64
BigIsUint64(x) == Len(x) <= UintBits \div 8

\* big.Int.Cmp(x, y) < 0, the digits compared from the highest down.
RECURSIVE BigLessFrom(_, _, _)
BigLessFrom(x, y, i) ==
  IF i = 0 THEN FALSE
  ELSE IF x[i] # y[i] THEN x[i] < y[i]
  ELSE BigLessFrom(x, y, i - 1)

BigLess(x, y) ==
  Only({IF Len(u) # Len(v) THEN Len(u) < Len(v) ELSE BigLessFrom(u, v, Len(u)) :
          <<u, v>> \in {<<x, y>>}})

\* CalcNextRequiredDifficulty with the wrapping product of uint64.
CalcNextRequiredDifficultyWrapping(prevBlock, getBlockByHeight) ==
  IF prevBlock = <<>> THEN [diff |-> NewInt(1), err |-> "nil"]
  ELSE IF prevBlock[1].Height < DifficultyAdjustmentWindow
  THEN [diff |-> prevBlock[1].Difficulty, err |-> "nil"]
  ELSE LET firstHeight == prevBlock[1].Height - DifficultyAdjustmentWindow + 1
           first == getBlockByHeight[firstHeight]
           t == prevBlock[1].Timestamp - first.block.Timestamp
           actualTime == IF t <= 0 THEN 1 ELSE t
           targetTime == TargetBlockTime * DifficultyAdjustmentWindow
       IN IF first.err # "nil" THEN [diff |-> <<>>, err |-> first.err]
          ELSE Only({[diff |-> IF BigLess(newDiff, NewInt(1)) THEN NewInt(1)
                               ELSE newDiff,
                       err |-> "nil"] :
                      newDiff \in {BigDiv(BigMulUint64(prevBlock[1].Difficulty,
                                                       targetTime),
                                          actualTime)}})

\* CalcNextRequiredDifficulty on a parent that may be nil (<<>> or <<b>>),
\* with Difficulty at its full width and timestamps in Unix seconds.
\* getBlockByHeight maps a height to [block, err].
CalcNextRequiredDifficulty64(prevBlock, getBlockByHeight) ==
  IF prevBlock = <<>> THEN [diff |-> NewInt(1), err |-> "nil"]
  ELSE IF prevBlock[1].Height < DifficultyAdjustmentWindow
  THEN [diff |-> prevBlock[1].Difficulty, err |-> "nil"]
  ELSE LET firstHeight == prevBlock[1].Height - DifficultyAdjustmentWindow + 1
           first == getBlockByHeight[firstHeight]
           t == prevBlock[1].Timestamp - first.block.Timestamp
           actualTime == IF t <= 0 THEN 1 ELSE t
           targetTime == TargetBlockTime * DifficultyAdjustmentWindow
           oldDiff == prevBlock[1].Difficulty
       IN IF first.err # "nil" THEN [diff |-> <<>>, err |-> first.err]
          ELSE Only({[diff |-> IF BigLess(newDiff, NewInt(1)) THEN NewInt(1)
                               ELSE IF ~BigIsUint64(newDiff) THEN MaxUint64
                               ELSE newDiff,
                       err |-> "nil"] :
                      newDiff \in {BigDiv(BigMul(oldDiff, targetTime), actualTime)}})

\* The parents and windows the function is called on.
RetargetDifficulties ==
  {NewInt(1), NewInt(2), NewInt(3), NewInt(256), NewInt(100000),
   BigShift(128, 5), BigShift(1, 6), BigOnes(6), BigShift(64, 7),
   BigShift(128, 7),
   [BigOnes(8) EXCEPT ![8] = 127], MaxUint64}

RetargetHeights == {0, 1, 23, 24, 25, 47}

RetargetParentTime == 1000000

RetargetWindows ==
  {0 - 3600, 0, 1, 7, 3600, 43200, 43201, 82800, 86399, 86400, 86401,
   172800, 172801, 999999}

\* Seconds between the blocks next to the first block of the window.
RetargetSpacing == 60

\* A parent of height h and difficulty d whose window is w seconds long;
\* the lookup by height fails with e or finds blocks RetargetSpacing apart.
RetargetInputs ==
  {[prevBlock |-> <<>>, getBlockByHeight |-> <<>>]}
  \cup {[prevBlock |-> <<[Height |-> h, Difficulty |-> d,
                          Timestamp |-> RetargetParentTime]>>,
         getBlockByHeight |->
           [k \in 0..h |->
              [block |-> [Height |-> k,
                          Timestamp |-> RetargetParentTime - w
                                          + (k - (h - 23)) * RetargetSpacing],
               err |-> e]]] :
          h \in RetargetHeights, d \in RetargetDifficulties,
          w \in RetargetWindows, e \in {"nil", "block not found"}}

InitRetarget ==
  /\ EngineStartsAs(EmptyState)
  /\ net = Unconnected
  /\ search = NoSearch
  /\ loop = NoLoop
  /\ \E in \in RetargetInputs : calls = [input |-> in, returned |-> <<>>]

\* One call of CalcNextRequiredDifficulty on the drawn input.
Retarget ==
  /\ calls.returned = <<>>
  /\ calls' = [calls EXCEPT !.returned =
                 <<CalcNextRequiredDifficulty64(calls.input.prevBlock,
                                                calls.input.getBlockByHeight)>>]
  /\ last' = Called("CalcNextRequiredDifficulty", calls'.returned[1].err)
  /\ UNCHANGED <<blocks, canon, cdf, head, tip, pool, txs, subscribers, mu, added>>
  /\ UNCHANGED besidesCalls

NextRetarget == Retarget

SpecRetarget == InitRetarget /\ [][NextRetarget]_vars

\* ------------------------------------------------------------------------
\* A chain whose blocks come exactly TargetBlockTime apart
\* ------------------------------------------------------------------------

MaxSteadyBlocks == 26

SteadyDifficulties == {1, 2, 22, 23, 24, 100}

\* InitGenesis at time 0 with one of the genesis difficulties.
InitSteady ==
  \E d \in SteadyDifficulties : StartsAs(InitGenesisStep(EmptyState, Alice, d, 0).st)

\* A miner's block on the tip, stamped TargetBlockTime after the tip, with
\* the difficulty the engine requires, passes AddBlock.
AddSteadyBlock ==
  /\ mu = "free"
  /\ added < MaxSteadyBlocks
  /\ \E b \in {Child(Cur, tip[1], [delta |-> 2 * TargetBlockTime, transfers |-> <<>>])} :
       \E r \in {AddBlockStep(Cur, b, b.Header.Timestamp)} :
          /\ Becomes(r.st)
          /\ last' = Called("AddBlock", r.err)
          /\ added' = added + Cardinality(DOMAIN r.st.blocks \ DOMAIN blocks)

NextSteady == AddSteadyBlock

SpecSteady == InitSteady /\ [][NextSteady]_vars

\* ------------------------------------------------------------------------
\* The mempool and its listing
\* ------------------------------------------------------------------------

NewTransferAt(from, to, amount, fee, nonce, timestamp) ==
  WithID([NewTransfer(from, to, amount, fee, nonce) EXCEPT !.Timestamp = timestamp])

\* Alice's transfer with nonce 2, stamped 5 s earlier than her others, and
\* Bob's transfer with nonce 1, stamped 5 s later than his others.
TransferEarly == Signed(NewTransferAt(Alice, Bob, 7, 0, 2, 2 * 5))

TransferLate == Signed(NewTransferAt(Bob, Alice, 1, 0, 1, 2 * 15))

ListTxOffers ==
  {Transfer3, Transfer4, TransferEarly, Transfer5, Transfer6, Transfer7,
   TransferLate}

\* The values of maxCount: none, one, two, and the miner's 1000.
MaxCounts == {0, 1, 2, 1000}

Listed(maxCount, result) ==
  [op |-> "GetPendingTransactions", err |-> "nil", maxCount |-> maxCount,
   result |-> result]

InitList == StartsAs([LoadedState EXCEPT !.pool = TRUE])

SubmitListTx ==
  /\ mu = "free"
  /\ \E tx \in ListTxOffers :
       \E r \in {AddTransaction(Cur, tx, FALSE)} :
          Becomes(r.st) /\ last' = Called("AddTransaction", r.err)
  /\ UNCHANGED added

ListPending ==
  /\ \E maxCount \in MaxCounts :
       \E result \in GetPendingTransactions(Cur, maxCount) :
          last' = Listed(maxCount, result)
  /\ UNCHANGED <<blocks, canon, cdf, head, tip, pool, txs, subscribers, mu, added>>
  /\ UNCHANGED outside

NextList ==
  \/ SubmitListTx
  \/ ListPending

SpecList == InitList /\ [][NextList]_vars

\* ------------------------------------------------------------------------
\* The mining loop with transactions in the mempool
\* ------------------------------------------------------------------------

\* The transfers clients submit while the miner runs: two of one sender,
\* stamped in the same second.
MinerTxOffers == {Transfer3, Transfer4}

SubmitMinerTx ==
  /\ mu = "free"
  /\ \E tx \in MinerTxOffers :
       \E r \in {AddTransaction(Cur, tx, FALSE)} :
          /\ r.err = "nil"
          /\ Becomes(r.st)
          /\ last' = Called("AddTransaction", r.err)
  /\ UNCHANGED added

NextMinerPool ==
  \/ SubmitMinerTx
  \/ LoopTop
  \/ JobTemplate
  \/ JobSolves
  \/ JobStops
  \/ LoopWake
  \/ LoopFound
  \/ PeerBlock

\* The node as cmd/chrd starts it: the chain is not told of the mempool, so
\* only the miner removes pooled transactions.
SpecMinerPool == InitMiner /\ [][NextMinerPool]_vars

\* ------------------------------------------------------------------------
\* Blocks that claim the hash of another block
\* ------------------------------------------------------------------------

MaxForgedBlocks == 2

\* What the miners put into their blocks: nothing, the sender's transfer
\* with nonce 1, or the transfers with nonces 1 and 2.
ForgedShapes ==
  {[delta |-> Fast, transfers |-> <<>>],
   [delta |-> Slow, transfers |-> <<Transfer3>>],
   [delta |-> Fast, transfers |-> <<Transfer3, Transfer4>>]}

\* b with its last transaction listed twice: for an odd number of
\* transactions ComputeMerkleRoot gives the same root.
MerkleTwin(b) ==
  [b EXCEPT !.Transactions = @ \o <<@[Len(@)]>>]

\* Blocks that carry the hash of b and another content: one more transfer
\* in the body, another timestamp in the header, the last transaction twice.
Forgeries(b) ==
  {[b EXCEPT !.Transactions = @ \o <<Transfer5>>],
   [b EXCEPT !.Header.Timestamp = @ + 2],
   MerkleTwin(b)}

\* Honest children of the tip and of its parent, their merkle twins, stored
\* blocks sent again and forgeries of stored blocks.
ForgedOffers(st) ==
  LET recent == Back(st, st.tip[1], 1)
      children == UNION {{Child(st, p, sh) : sh \in ForgedShapes} : p \in recent}
  IN {Offer(b, b.Header.Timestamp) :
        b \in children \cup {MerkleTwin(c) : c \in children} \cup recent
               \cup UNION {Forgeries(c) : c \in recent}}

InitForged == \E st \in {LoadedState} : StartsAs(st)

\* AddBlock(block); last keeps the block and whether its hash was stored
\* before the call.
AddForgedBlock ==
  /\ mu = "free"
  /\ added < MaxForgedBlocks
  /\ \E o \in ForgedOffers(Cur) :
       \E r \in {AddBlockStep(Cur, o.block, o.now)} :
          /\ Becomes(r.st)
          /\ last' = [op |-> "AddBlock", err |-> r.err, block |-> o.block,
                      known |-> o.block.Hash \in DOMAIN blocks]
          /\ added' = added + Cardinality(DOMAIN r.st.blocks \ DOMAIN blocks)

NextForged == AddForgedBlock

SpecForged == InitForged /\ [][NextForged]_vars

\* ------------------------------------------------------------------------
\* Properties
\* ------------------------------------------------------------------------

\* b is what the canonical height index maps at b's height.
OnCanon(b) ==
  b.Header.Height \in DOMAIN canon /\ canon[b.Header.Height] = b.Hash

\* A step that stored a block on an initialized chain: AddBlock got past
\* validation with a block that was not stored before.
StoresNewBlock == tip # <<>> /\ DOMAIN blocks' # DOMAIN blocks

NewHash == CHOOSE h \in DOMAIN blocks' \ DOMAIN blocks : TRUE

\* C1: when AddBlock stores a valid block that was not stored before, the
\* block becomes the tip (and the head, and the entry of the canonical index
\* at its height) if and only if its cumulative difficulty is greater than the
\* tip's, or equal to it with the block's prev hash being the tip's hash; in
\* every other case AddBlock returns success and the tip, the head pointer and
\* the canonical index stay as they were.
C1_ForkChoice ==
  [][StoresNewBlock =>
       LET b == blocks'[NewHash]
           heavier == \/ cdf'[NewHash] > cdf[tip[1].Hash]
                      \/ /\ cdf'[NewHash] = cdf[tip[1].Hash]
                         /\ b.Header.PrevBlockHash = tip[1].Hash
       IN /\ last'.op = "AddBlock"
          /\ heavier => /\ tip' = <<b>>
                        /\ head' = <<NewHash>>
                        /\ b.Header.Height \in DOMAIN canon'
                        /\ canon'[b.Header.Height] = NewHash
          /\ ~heavier => /\ last'.err = "nil"
                         /\ UNCHANGED <<tip, head, canon>>]_vars

\* A block that weighs as much as the tip, on another branch, was stored as
\* a side-chain block: the tip is still the one loaded at start-up.
C1_EqualWeightForkKept ==
  /\ added > 0
  /\ last = Called("AddBlock", "nil")
  /\ tip = LoadedState.tip
  /\ \E b \in StoredBlocks(Cur) :
       /\ b.Hash \notin DOMAIN LoadedState.blocks
       /\ b.Header.PrevBlockHash # tip[1].Hash
       /\ cdf[b.Hash] = cdf[tip[1].Hash]

\* C2 as stated: the tip's cumulative difficulty is at least that of every
\* known block, with equality only for the tip itself or for a block that is
\* not on the canonical chain.
C2_TipHeaviestStrict ==
  tip # <<>> =>
    \A b \in StoredBlocks(Cur) :
      /\ cdf[tip[1].Hash] >= cdf[b.Hash]
      /\ cdf[tip[1].Hash] = cdf[b.Hash] => (b.Hash = tip[1].Hash \/ ~OnCanon(b))

\* Every canonical block above b up to the tip has difficulty 0.
ZeroDifficultyAbove(b) ==
  \A c \in StoredBlocks(Cur) :
    (OnCanon(c) /\ c.Header.Height > b.Header.Height
       /\ c.Header.Height <= tip[1].Header.Height)
      => c.Header.Difficulty = 0

\* C2 (amended): the tip's cumulative difficulty is at least that of every
\* known block; equality holds only if the block is the tip, or is not on the
\* canonical chain, or is a canonical block below the tip with every canonical
\* block above it up to the tip having difficulty 0.
C2_TipHeaviest ==
  tip # <<>> =>
    \A b \in StoredBlocks(Cur) :
      /\ cdf[tip[1].Hash] >= cdf[b.Hash]
      /\ cdf[tip[1].Hash] = cdf[b.Hash] =>
           \/ b.Hash = tip[1].Hash
           \/ ~OnCanon(b)
           \/ (b.Header.Height < tip[1].Header.Height /\ ZeroDifficultyAbove(b))

\* A chain of difficulty 0 grew above genesis: the canonical genesis block
\* weighs as much as the tip.
C2_ZeroDifficultyTip ==
  /\ tip # <<>>
  /\ tip[1].Header.Height > 0
  /\ last = Called("AddBlock", "nil")
  /\ cdf[canon[0]] = cdf[tip[1].Hash]

\* Height continuity at height h of the canonical index.
ContinuousAt(h) ==
  /\ (h - 1) \in DOMAIN canon
  /\ canon[h] \in DOMAIN blocks
  /\ canon[h - 1] \in DOMAIN blocks
  /\ blocks[canon[h]].Header.Height = h
  /\ blocks[canon[h]].Header.PrevBlockHash = blocks[canon[h - 1]].Hash

\* C3 as stated: for every height h > 0 the canonical index maps, the block
\* mapped at h has prev hash equal to the hash of the block mapped at h - 1.
C3_ContinuityEveryMappedHeight ==
  \A h \in DOMAIN canon : h > 0 => ContinuousAt(h)

\* C3 (amended): the canonical index maps every height from 0 to the tip's,
\* maps the tip's height to the tip, and for every height h with
\* 0 < h <= tip.height the block mapped at h has prev hash equal to the hash
\* of the block mapped at h - 1.
C3_ContinuityUpToTip ==
  tip # <<>> =>
    /\ \A h \in 0..tip[1].Header.Height : h \in DOMAIN canon
    /\ canon[tip[1].Header.Height] = tip[1].Hash
    /\ \A h \in 1..tip[1].Header.Height : ContinuousAt(h)

\* AddBlock reorganized onto a heavier chain that is shorter than the one it
\* left: the index still maps a height above the tip.
C3_ReorgOntoShorterChain ==
  /\ tip # <<>>
  /\ added > 0
  /\ last.op = "AddBlock"
  /\ \E h \in DOMAIN canon : h > tip[1].Header.Height

\* The blocks from genesis to b in ascending height, found by following prev
\* hashes back from b.
RECURSIVE AncestryPath(_)
AncestryPath(b) ==
  IF b.Header.PrevBlockHash \in DOMAIN blocks
  THEN Append(AncestryPath(blocks[b.Header.PrevBlockHash]), b)
  ELSE <<b>>

\* The account of addr after the first i blocks of path, seen from a tip at
\* currentHeight.
RECURSIVE ReplayPath(_, _, _, _)
ReplayPath(path, i, addr, currentHeight) ==
  IF i = 0 THEN [balance |-> 0, nonce |-> 0]
  ELSE LET acc == ReplayPath(path, i - 1, addr, currentHeight)
       IN IF acc.nonce < 0 THEN acc
          ELSE LET after == ApplyTxs([balance |-> acc.balance, nonce |-> acc.nonce,
                                      stopped |-> FALSE],
                                     path[i].Transactions, 1, addr,
                                     path[i].Header.Height, currentHeight)
               IN [balance |-> after.balance, nonce |-> after.nonce]

\* The addresses that receive or send in the model, and one that never does.
Addresses == {Alice, Bob, <<0, 3>>}

C5_SecondAddBlockIsNoOp ==
  (tip # <<>> /\ mu = "free") =>
    \A b \in StoredBlocks(Cur) :
      AddBlockStep(Cur, b, b.Header.Timestamp) = Result(Cur, "nil")

\* AddBlock returned success without ever having stored a block in this run:
\* its block was already stored; a mempool and a subscriber are attached.
C5_CalledWithStoredBlock ==
  /\ added = 0
  /\ last = Called("AddBlock", "nil")
  /\ pool
  /\ Len(subscribers) > 0

\* What AddBlock returns when the parent is missing, the height or the
\* difficulty is wrong, or ValidateBlock fails.
RejectionErrors ==
  {"ErrParentNotFound", "invalid block height",
   "block difficulty does not match required",
   "ErrInvalidHeight", "ErrInvalidPrevHash", "ErrTimestampTooOld",
   "ErrTimestampTooFar", "ErrInvalidMerkleRoot", "ErrInvalidBlockHash",
   "ErrPowHashMismatch", "ErrInvalidPoW", "ErrInvalidCoinbasePos",
   "ErrNoCoinbaseTx", "ErrInvalidCoinbaseAmt"}

\* C6: a call of AddBlock that returns one of the rejection errors persists
\* nothing: block store, cumulative difficulties, canonical index, head
\* pointer, tip, mempool and every subscriber's channel are unchanged.
C6_RejectionChangesNothing ==
  [][(last' # last /\ last'.op = "AddBlock" /\ last'.err \in RejectionErrors)
       => UNCHANGED <<blocks, cdf, canon, head, tip, pool, txs, subscribers, mu>>]_vars

\* AddBlock rejected a block for its coinbase amount while a mempool and a
\* subscriber were attached.
C6_RejectedWithListeners ==
  /\ last = Called("AddBlock", "ErrInvalidCoinbaseAmt")
  /\ pool
  /\ Len(subscribers) > 0

\* C7 as stated: for every stored block C and every ancestor B of C, the
\* cumulative difficulty of B is strictly less than that of C.
C7_StrictlyMonotone ==
  \A c \in StoredBlocks(Cur) :
    LET path == AncestryPath(c)
    IN \A i \in 1..(Len(path) - 1) : cdf[path[i].Hash] < cdf[c.Hash]

\* C7 (amended): for every stored block C and every ancestor B of C, the
\* cumulative difficulty of B is at most that of C, and it is strictly less
\* unless every block after B up to and including C has difficulty 0.
C7_Monotone ==
  \A c \in StoredBlocks(Cur) :
    LET path == AncestryPath(c)
    IN \A i \in 1..(Len(path) - 1) :
         /\ cdf[path[i].Hash] <= cdf[c.Hash]
         /\ cdf[path[i].Hash] = cdf[c.Hash] =>
              \A j \in (i + 1)..Len(path) : path[j].Header.Difficulty = 0

\* AddBlock stored a block of difficulty 0: it weighs what its parent weighs.
C7_ZeroDifficultyChild ==
  /\ added > 0
  /\ \E c \in StoredBlocks(Cur) :
       /\ c.Header.Height > 0
       /\ c.Header.Difficulty = 0
       /\ cdf[c.Hash] = cdf[c.Header.PrevBlockHash]

\* C8: every stored block has hash = SHA-256(header bytes), pow hash =
\* hasher(header bytes), a pow hash that meets the header's difficulty, and a
\* merkle root equal to the merkle root of its transactions.
C8_HashIntegrity ==
  \A b \in StoredBlocks(Cur) :
    /\ b.Hash = ComputeSHA256(HeaderSerialize(b.Header))
    /\ b.PowHash = HasherHash(HeaderSerialize(b.Header))
    /\ MeetsDifficulty(b.PowHash, b.Header.Difficulty)
    /\ b.Header.MerkleRoot = ComputeMerkleRoot(b.Transactions)

\* After blocks were stored, AddBlock was offered a block whose merkle root
\* is not that of its transactions, and refused it.
C8_ForgedMerkleRootRefused ==
  /\ added > 0
  /\ last = Called("AddBlock", "ErrInvalidMerkleRoot")

\* The difficulty required of a child of parent, from parent's own ancestry.
OwnBranchDifficulty(parent) ==
  IF parent.Header.Height < DifficultyAdjustmentWindow
  THEN parent.Header.Difficulty
  ELSE CalcNextRequiredDifficulty(
         parent,
         [block |-> AncestryPath(parent)[FirstHeight(parent) + 1], err |-> "nil"]).diff

\* C9: every stored block above genesis has its parent stored and carries
\* the difficulty required of a child of that parent, the window start being
\* the parent's own ancestor (found by following prev hashes), whether or not
\* the canonical index maps another block at that height.
C9_DifficultyFromOwnBranch ==
  \A b \in StoredBlocks(Cur) :
    b.Header.Height > 0 =>
      /\ b.Header.PrevBlockHash \in DOMAIN blocks
      /\ b.Header.Difficulty = OwnBranchDifficulty(blocks[b.Header.PrevBlockHash])

\* AddBlock accepted a block past the first retarget on a branch that was a
\* side chain: the chain it displaced, still indexed above the tip, carries
\* another difficulty.
C9_RetargetOnSideBranch ==
  /\ tip # <<>>
  /\ added > 0
  /\ last = Called("AddBlock", "nil")
  /\ tip # <<>>
  /\ tip[1].Header.Height > DifficultyAdjustmentWindow
  /\ (tip[1].Header.Height + 1) \in DOMAIN canon
  /\ blocks[canon[tip[1].Header.Height + 1]].Header.Difficulty
       # tip[1].Header.Difficulty

\* The coinbase amounts of one block.
RECURSIVE CoinbaseSum(_, _)
CoinbaseSum(list, i) ==
  IF i > Len(list) THEN 0
  ELSE (IF list[i].Type = TxTypeCoinbase THEN list[i].Amount ELSE 0)
         + CoinbaseSum(list, i + 1)

\* The coinbase amounts of the canonical blocks at heights 0..h.
RECURSIVE CanonicalCoinbaseSum(_)
CanonicalCoinbaseSum(h) ==
  IF h < 0 THEN 0
  ELSE CoinbaseSum(blocks[canon[h]].Transactions, 1) + CanonicalCoinbaseSum(h - 1)

RECURSIVE TransfersSent(_, _, _)
TransfersSent(path, i, addr) ==
  IF i = 0 THEN 0
  ELSE TransfersSent(path, i - 1, addr)
         + Cardinality({k \in 1..Len(path[i].Transactions) :
                          /\ path[i].Transactions[k].Type = TxTypeTransfer
                          /\ path[i].Transactions[k].From = addr})

\* C11: for every address, the all-zero address included, the nonce that
\* GetAccountState returns is the number of transfer-type transactions sent
\* by that address on the canonical chain: a coinbase is no outgoing
\* transaction of any address and increments no nonce.
C11_NonceCountsTransfers ==
  (tip # <<>> /\ mu = "free") =>
    LET path == AncestryPath(tip[1])
    IN \A addr \in Addresses \cup {ZeroHash} :
         GetAccountState(Cur, addr).nonce = TransfersSent(path, Len(path), addr)

\* The same count for the addresses other than the all-zero one.
C11_NonceOfKeyedAddresses ==
  (tip # <<>> /\ mu = "free") =>
    LET path == AncestryPath(tip[1])
    IN \A addr \in Addresses :
         GetAccountState(Cur, addr).nonce = TransfersSent(path, Len(path), addr)

\* Genesis alone is canonical and the all-zero address already has a nonce.
C11_ZeroAddressHasNonce ==
  /\ tip # <<>>
  /\ mu = "free"
  /\ tip[1].Header.Height = 0
  /\ GetAccountState(Cur, ZeroHash).nonce = 1

\* C12: for every canonical chain reached through AddBlock and every
\* address, the balance that GetAccountState returns is a balance that never
\* went below zero: no debit of the replay wraps the unsigned 64-bit value.
C12_BalanceNeverWraps ==
  (tip # <<>> /\ mu = "free") =>
    \A addr \in Addresses \cup {ZeroHash} :
       GetAccountState(Cur, addr).balance >= 0

\* AddBlock made canonical a block whose transfer its sender could not pay:
\* the sender's balance is a wrapped value.
C12_UnfundedTransferConfirmed ==
  /\ tip # <<>>
  /\ mu = "free"
  /\ last = Called("AddBlock", "nil")
  /\ \E k \in 2..Len(tip[1].Transactions) :
       /\ tip[1].Transactions[k].From \in Addresses
       /\ GetAccountState(Cur, tip[1].Transactions[k].From).balance < 0

\* The (block, transaction) positions of path.
Entries(path) ==
  UNION {{<<i, k>> : k \in 1..Len(path[i].Transactions)} : i \in 1..Len(path)}

TxAt(path, e) == path[e[1]].Transactions[e[2]]

RECURSIVE SumAmounts(_, _)
SumAmounts(path, S) ==
  IF S = {} THEN 0
  ELSE LET e == CHOOSE x \in S : TRUE
       IN TxAt(path, e).Amount + SumAmounts(path, S \ {e})

RECURSIVE SumFees(_, _)
SumFees(path, S) ==
  IF S = {} THEN 0
  ELSE LET e == CHOOSE x \in S : TRUE
       IN TxAt(path, e).Fee + SumFees(path, S \ {e})

\* The coinbase outputs paid to addr on path that count at tip height H:
\* those of a block at height o with H >= o and H - o >= 24.
CountedCoinbases(path, addr, H) ==
  {e \in Entries(path) :
     /\ TxAt(path, e).Type = TxTypeCoinbase
     /\ TxAt(path, e).To = addr
     /\ H >= path[e[1]].Header.Height
     /\ H - path[e[1]].Header.Height >= CoinbaseMaturity}

TransfersTo(path, addr) ==
  {e \in Entries(path) :
     TxAt(path, e).Type = TxTypeTransfer /\ TxAt(path, e).To = addr}

TransfersOf(path, addr) ==
  {e \in Entries(path) :
     TxAt(path, e).Type = TxTypeTransfer /\ TxAt(path, e).From = addr}

\* The balance of addr has exactly the counted coinbases in it.
CountsMatureOnly(path, addr, H) ==
  GetAccountState(Cur, addr).balance
    = SumAmounts(path, CountedCoinbases(path, addr, H))
        + SumAmounts(path, TransfersTo(path, addr))
        - SumAmounts(path, TransfersOf(path, addr))
        - SumFees(path, TransfersOf(path, addr))

\* The genesis miner has received nothing but the genesis coinbase.
ReceivedNothingElse(path) ==
  \A e \in Entries(path) :
     TxAt(path, e).To = path[1].Transactions[1].To => e = <<1, 1>>

\* Then its balance is 0 below tip height 24 and the block reward from there.
GenesisMinerBalance(path, H) ==
  ReceivedNothingElse(path) =>
    GetAccountState(Cur, path[1].Transactions[1].To).balance
      = IF H < CoinbaseMaturity THEN 0 ELSE BlockReward(0)

MaturityBoundary(H) ==
  \A h \in 0..H : ~IsMature(h, h + 23) /\ IsMature(h, h + 24)

\* C13: a coinbase output paid to addr in the canonical block at height o is
\* counted in the balance of addr if and only if tip.height >= o and
\* tip.height - o >= 24; the genesis miner's balance is 0 at every tip height
\* below 24 and the block reward at height 24 when it has received nothing
\* else; IsMature(h, h+23) is false and IsMature(h, h+24) is true.
C13_CoinbaseMaturity ==
  (tip # <<>> /\ mu = "free") =>
    LET path == AncestryPath(tip[1])
        H == tip[1].Header.Height
    IN /\ \A addr \in Addresses : CountsMatureOnly(path, addr, H)
       /\ GenesisMinerBalance(path, H)
       /\ MaturityBoundary(H)

\* The same for a genesis miner other than the all-zero address.
C13_MaturityKeyedMiner ==
  (tip # <<>> /\ mu = "free") =>
    LET path == AncestryPath(tip[1])
        H == tip[1].Header.Height
    IN /\ \A addr \in Addresses : CountsMatureOnly(path, addr, H)
       /\ path[1].Transactions[1].To \in Addresses => GenesisMinerBalance(path, H)
       /\ MaturityBoundary(H)

\* Genesis was mined to the all-zero address, which has received nothing
\* else, and the balance returned for it is not 0.
C13_ZeroMinerBalance ==
  /\ tip # <<>>
  /\ mu = "free"
  /\ tip[1].Header.Height < CoinbaseMaturity
  /\ AncestryPath(tip[1])[1].Transactions[1].To = ZeroHash
  /\ ReceivedNothingElse(AncestryPath(tip[1]))
  /\ GetAccountState(Cur, ZeroHash).balance # 0

Largest(S) == CHOOSE n \in S : \A m \in S : m <= n

\* max(confirmed nonce of from, 1 + the largest nonce among its pooled
\* transactions).
ExpectedNonce(from) ==
  LET confirmed == GetAccountState(Cur, from).nonce
      pooled == {txs[id].Nonce : id \in {x \in DOMAIN txs : txs[x].From = from}}
  IN IF pooled = {} THEN confirmed
     ELSE Largest({confirmed, 1 + Largest(pooled)})

\* tx gets as far as the nonce check of AddTransaction.
ReachesNonceCheck(tx) ==
  tx.ID \notin DOMAIN txs /\ Verify(tx.From, TxSerialize(tx), tx.Signature)

\* C14: AddTransaction accepts a transaction of sender S only when its nonce
\* is the pending nonce, max(confirmed nonce of S, 1 + the largest nonce among
\* the pooled transactions of S); a transaction with any other nonce, a gap
\* or a reuse, is rejected and leaves the pool as it was, with InvalidNonce
\* when it is new to the pool and validly signed.
C14_NonceStrict ==
  mu = "free" =>
    \A tx \in PoolTxOffers :
       LET r == AddTransaction(Cur, tx, FALSE)
       IN /\ r.err = "nil" => tx.Nonce = ExpectedNonce(tx.From)
          /\ tx.Nonce # ExpectedNonce(tx.From) => r.err # "nil" /\ r.st = Cur
          /\ (ReachesNonceCheck(tx) /\ tx.Nonce # ExpectedNonce(tx.From))
               => r.err = "ErrInvalidNonce"

\* Confirmed nonce 0, the transaction with nonce 0 is pooled, the one with
\* nonce 2 has just been refused and the one with nonce 1 is accepted next.
C14_GapRefused ==
  /\ mu = "free"
  /\ GetAccountState(Cur, Alice).nonce = 0
  /\ Transfer1.ID \in DOMAIN txs
  /\ Transfer3.ID \notin DOMAIN txs
  /\ last = Called("AddTransaction", "ErrInvalidNonce")
  /\ AddTransaction(Cur, Transfer4, FALSE).err = "ErrInvalidNonce"
  /\ AddTransaction(Cur, Transfer3, FALSE).err = "nil"

\* The amounts and fees that the funds check of tx adds up: those of the
\* sender's pooled transactions and those of tx.
Huge(v) == v < 0

HugeAddends(tx) ==
  LET mine == SameSender(txs, tx.From)
  IN Cardinality({id \in mine : Huge(txs[id].Amount)})
       + Cardinality({id \in mine : Huge(txs[id].Fee)})
       + (IF Huge(tx.Amount) THEN 1 ELSE 0) + (IF Huge(tx.Fee) THEN 1 ELSE 0)

LowParts(tx) ==
  SumDebit(txs, SameSender(txs, tx.From)) + tx.Amount + tx.Fee

\* balance >= the sum as an exact integer.  A value v < 0 stands for
\* 2^64 + v, so the exact sum is 2^64 * HugeAddends + LowParts and the exact
\* balance is 2^64 * (1 if balance < 0) + balance.
ExactlyCovered(balance, tx) ==
  LET hb == IF Huge(balance) THEN 1 ELSE 0
  IN hb > HugeAddends(tx) \/ (hb = HugeAddends(tx) /\ balance >= LowParts(tx))

\* C15: for all 64-bit amounts and fees, AddTransaction accepts a transaction
\* of sender S only if the balance of S is at least the sum of amount + fee
\* over the pooled transactions of S plus the amount and fee of the
\* transaction, the sum being an exact integer; otherwise it rejects with
\* InsufficientFunds.
C15_FundsCovered ==
  mu = "free" =>
    \A tx \in PoolTxOffers :
       LET r == AddTransaction(Cur, tx, FALSE)
           balance == GetAccountState(Cur, tx.From).balance
       IN /\ r.err = "nil" => ExactlyCovered(balance, tx)
          /\ (/\ ReachesNonceCheck(tx)
              /\ tx.Nonce = ExpectedNonce(tx.From)
              /\ ~ExactlyCovered(balance, tx))
               => r.err = "ErrInsufficientFunds"

\* The same with every amount and fee involved below 2^63.
C15_FundsCoveredSmallAmounts ==
  mu = "free" =>
    \A tx \in PoolTxOffers :
       LET r == AddTransaction(Cur, tx, FALSE)
           balance == GetAccountState(Cur, tx.From).balance
       IN HugeAddends(tx) = 0 =>
            /\ r.err = "nil" => balance >= LowParts(tx)
            /\ (/\ ReachesNonceCheck(tx)
                /\ tx.Nonce = ExpectedNonce(tx.From)
                /\ balance < LowParts(tx))
                 => r.err = "ErrInsufficientFunds"

\* The pool holds a transfer of 2^64 - 1 with fee 1 whose sender owns 5.
C15_WrappedSumAccepted ==
  /\ mu = "free"
  /\ last = Called("AddTransaction", "nil")
  /\ Transfer8.ID \in DOMAIN txs
  /\ GetAccountState(Cur, Bob).balance = 5

\* A second transfer is refused for lack of funds after a first was pooled.
C15_SecondSpendRefused ==
  /\ mu = "free"
  /\ last = Called("AddTransaction", "ErrInsufficientFunds")
  /\ Transfer3.ID \in DOMAIN txs
  /\ AddTransaction(Cur, Transfer4, FALSE).err = "ErrInsufficientFunds"

\* The errors AddTransaction returns to a caller.
PoolErrors ==
  {"ErrTxAlreadyInMempool", "ErrInvalidSignature", "ErrInvalidNonce",
   "ErrInsufficientFunds"}

RECURSIVE OfferedTxs(_, _, _, _)
OfferedTxs(st, txsToReturn, i, newTxSet) ==
  IF i > Len(txsToReturn) THEN <<>>
  ELSE IF txsToReturn[i].Type = TxTypeCoinbase \/ txsToReturn[i].ID \in newTxSet
  THEN OfferedTxs(st, txsToReturn, i + 1, newTxSet)
  ELSE LET r == AddTransaction(st, txsToReturn[i], TRUE)
       IN IF r.err = "blocked" THEN <<txsToReturn[i]>>
          ELSE <<txsToReturn[i]>> \o OfferedTxs(r.st, txsToReturn, i + 1, newTxSet)

Range(seq) == {seq[i] : i \in 1..Len(seq)}

TxIds(chain) == {tx.ID : tx \in Range(AllTxs(chain))}

\* What reorganize offers to the pool when the tip goes from oldTip to newTip.
OfferedOnSwitch(st, oldTip, newTip) ==
  LET fp == findForkPaths(st, oldTip, newTip)
  IN Range(OfferedTxs(RemoveTransactions(st, AllTxs(fp.newChain)),
                      AllTxs(fp.oldChain), 1, TxIds(fp.newChain)))

\* The non-coinbase transactions of oldChain whose id is in no block of
\* newChain.
OnlyInOldChain(st, oldTip, newTip) ==
  LET fp == findForkPaths(st, oldTip, newTip)
  IN {tx \in Range(AllTxs(fp.oldChain)) :
        tx.Type # TxTypeCoinbase /\ tx.ID \notin TxIds(fp.newChain)}

\* AddBlock has moved the tip of a chain that has a pool.
SwitchesTip ==
  /\ pool
  /\ tip # <<>>
  /\ last'.op = "AddBlock"
  /\ tip' # tip

\* C17: when AddBlock switches the tip from O to N with a pool attached,
\* every non-coinbase transaction of oldChain whose id is in no block of
\* newChain is offered to the pool, no coinbase and no transaction of
\* newChain is offered, and the reorganization succeeds whatever the
\* re-admissions return.
C17_Reinjection ==
  [][SwitchesTip =>
       /\ OfferedOnSwitch(Cur, tip[1], tip'[1]) = OnlyInOldChain(Cur, tip[1], tip'[1])
       /\ last'.err = "nil"]_vars

\* Nothing but those transactions is offered.
C17_OffersOnlyFromOldChain ==
  [][SwitchesTip =>
       OfferedOnSwitch(Cur, tip[1], tip'[1]) \subseteq OnlyInOldChain(Cur, tip[1], tip'[1])]_vars

\* The reorganization abandoned a block with two transfers; it offered the
\* first to the mempool, the call never returned, and the second was never
\* offered: AddBlock still holds the chain's lock.
C17_ReinjectionStuck ==
  /\ pool
  /\ mu = "stuck"
  /\ last = Called("AddBlock", "blocked")
  /\ DOMAIN txs = {}
  /\ \E b \in StoredBlocks(Cur) :
       /\ Len(b.Transactions) = 3
       /\ b.Transactions[2] = Transfer1
       /\ b.Transactions[3] = Transfer5
       /\ b.Header.Height > tip[1].Header.Height

\* C18: after AddBlock has adopted a new tip, by a direct extension or by a
\* reorganization, on a chain that has a pool, no non-coinbase transaction of
\* a block of the newly canonical segment newChain is in the pool.
C18_Eviction ==
  [][SwitchesTip =>
       \A tx \in Range(AllTxs(findForkPaths(Cur, tip[1], tip'[1]).newChain)) :
          tx.Type # TxTypeCoinbase => tx.ID \notin DOMAIN txs']_vars

\* The only stored block that carries Transfer5 is the tip, so Transfer6,
\* with nonce 1, entered the pool when Transfer5 was pooled and unconfirmed.
OnlyTipCarriesTransfer5 ==
  \A b \in StoredBlocks(Cur) : Transfer5 \in Range(b.Transactions) <=> b = tip[1]

\* Bob's transfers with nonce 0 and nonce 1 were pooled; AddBlock adopted a
\* block on top of the tip carrying the first, and only the second is left in
\* the pool.
C18_ConfirmedTransferEvicted ==
  /\ pool
  /\ mu = "free"
  /\ last = Called("AddBlock", "nil")
  /\ added = 1
  /\ tip[1].Header.Height = 28
  /\ OnlyTipCarriesTransfer5
  /\ DOMAIN txs = {Transfer6.ID}

\* The same through a reorganization, which then waits for the chain's lock.
C18_EvictedByReorganization ==
  /\ pool
  /\ last = Called("AddBlock", "blocked")
  /\ tip[1].Header.Height = 26
  /\ OnlyTipCarriesTransfer5
  /\ DOMAIN txs = {Transfer6.ID}

\* C19: coalescing keeps the newest value: when the tip changes while a
\* subscriber has not consumed its notification, the older pending value
\* gives way to the newer one, so the value a subscriber receives next is the
\* most recent tip emitted, which is the current tip.
C19_PendingIsNewest ==
  (tip # <<>> /\ mu = "free") =>
    \A i \in 1..Len(subscribers) :
       Len(subscribers[i]) > 0 => subscribers[i][1] = tip[1]

\* Two tip changes were emitted without a receive in between and the channel
\* holds the first one.
C19_NewerTipDropped ==
  /\ mu = "free"
  /\ last = Called("AddBlock", "nil")
  /\ added = 2
  /\ Len(subscribers) = 1
  /\ Len(subscribers[1]) = 1
  /\ subscribers[1][1].Hash \notin DOMAIN LoadedState.blocks
  /\ tip[1].Header.PrevBlockHash = subscribers[1][1].Hash

\* The subscriber's channel holds a tip that is not the current one: the
\* current tip was emitted while that value was pending.
HoldsStaleTip ==
  /\ Len(subscribers) > 0
  /\ Len(subscribers[1]) > 0
  /\ subscribers[1][1] # tip[1]

\* The subscriber's channel holds the current tip.
HoldsCurrentTip ==
  /\ Len(subscribers) > 0
  /\ Len(subscribers[1]) > 0
  /\ subscribers[1][1] = tip[1]

\* C20: for every tip change to T, a subscriber that keeps receiving
\* eventually receives T or a tip emitted after T, even if the tip never
\* changes again.  A subscriber whose channel holds an earlier tip while T is
\* the current tip has received neither T nor a later tip; what it receives
\* comes out of its channel and entered it as the current tip: so the channel
\* holds the then current tip at some later time.
C20_LaterTipDelivered == [](HoldsStaleTip => <>HoldsCurrentTip)

\* The last tip change the bound allows has happened and the channel still
\* holds an earlier tip: that one is all the subscriber will receive.
C20_StaleTipPending ==
  /\ mu = "free"
  /\ added = MaxTipBlocks
  /\ Len(subscribers) = 1
  /\ Len(subscribers[1]) = 1
  /\ subscribers[1][1] # tip[1]

\* AddBlock has moved the tip.
MovesTip ==
  /\ tip # <<>>
  /\ last'.op = "AddBlock"
  /\ tip' # tip

PersistedAndCanonical(T) ==
  LET path == AncestryPath(T)
  IN /\ T.Hash \in DOMAIN blocks
     /\ blocks[T.Hash] = T
     /\ path[1].Header.Height = 0
     /\ \A k \in 1..Len(path) : OnCanon(path[k])

\* The same without the canonical index.
Persisted(T) ==
  /\ T.Hash \in DOMAIN blocks
  /\ blocks[T.Hash] = T
  /\ AncestryPath(T)[1].Header.Height = 0

\* Subscriber i takes the value out of its channel.
Receives(i) ==
  /\ subscribers[i] # <<>>
  /\ subscribers' = [subscribers EXCEPT ![i] = Tail(@)]

\* C22: whenever a subscriber receives a tip T from its channel, T and all
\* of its ancestors are stored, and in the state in which it is received T
\* and its ancestors are the canonical blocks at their heights.
C22_ReceivedTipCanonical ==
  [][\A i \in 1..Len(subscribers) :
        Receives(i) => PersistedAndCanonical(subscribers[i][1])]_vars

\* The part about the store alone.
C22_ReceivedTipPersisted ==
  [][\A i \in 1..Len(subscribers) :
        Receives(i) => Persisted(subscribers[i][1])]_vars

\* A value enters a channel as the tip of the state that AddBlock leaves, and
\* in that state it and its ancestors are canonical.
C22_EmittedTipCanonical ==
  [][\A i \in 1..Len(subscribers) :
        (subscribers[i] = <<>> /\ subscribers'[i] # <<>>) =>
           /\ subscribers'[i] = tip'
           /\ PersistedAndCanonical(tip[1])']_vars

\* The channel holds a tip that a later reorganization has taken off the
\* canonical chain; the subscriber can receive it now.
C22_PendingTipAbandoned ==
  /\ mu = "free"
  /\ Len(subscribers) = 1
  /\ subscribers[1] # <<>>
  /\ Persisted(subscribers[1][1])
  /\ ~PersistedAndCanonical(subscribers[1][1])

\* C23: InitGenesis on an uninitialised chain either succeeds, and then its
\* block has height 0, prev hash zero and exactly one transaction, a coinbase
\* paying BlockReward to the miner address; the block is stored, it is the
\* tip, the canonical index maps height 0 to its hash, its stored cumulative
\* difficulty is the difficulty given, the head is its hash and TotalSupply
\* is BlockReward; or it fails validation, and then the store and the tip are
\* as they were.
C23_GenesisPostconditions ==
  tip = <<>> =>
    \A minerAddress \in GenesisMiners, difficulty \in GenesisDifficulties :
       LET r == InitGenesisStep(Cur, minerAddress, difficulty, GenesisTime)
       IN IF r.err = "nil"
          THEN /\ r.st.tip # <<>>
               /\ LET g == r.st.tip[1]
                  IN /\ g.Header.Height = 0
                     /\ g.Header.PrevBlockHash = ZeroHash
                     /\ Len(g.Transactions) = 1
                     /\ g.Transactions[1].Type = TxTypeCoinbase
                     /\ g.Transactions[1].Amount = TypesBlockReward
                     /\ g.Transactions[1].To = minerAddress
                     /\ r.st.blocks = Put(blocks, g.Hash, g)
                     /\ r.st.canon = Put(canon, 0, g.Hash)
                     /\ r.st.cdf = Put(cdf, g.Hash, difficulty)
                     /\ r.st.head = <<g.Hash>>
                     /\ TotalSupply(r.st) = TypesBlockReward
          ELSE /\ r.err \in RejectionErrors
               /\ r.st = Cur

\* InitGenesis has succeeded: the store holds the genesis block and nothing
\* else.
C23_GenesisCreated ==
  /\ last = Called("InitGenesis", "nil")
  /\ tip # <<>>
  /\ tip[1].Header.Height = 0
  /\ DOMAIN blocks = {tip[1].Hash}
  /\ DOMAIN canon = {0}
  /\ head = <<tip[1].Hash>>

\* InitGenesis has failed validation (a difficulty above 256 cannot be met):
\* the store is empty.
C23_GenesisRefused ==
  /\ last = Called("InitGenesis", "ErrInvalidPoW")
  /\ tip = <<>>
  /\ DOMAIN blocks = {}
  /\ head = <<>>

\* C24: InitGenesis on a chain whose tip is set, by an earlier InitGenesis or
\* by NewChain from the store, fails with ErrChainAlreadyInitialized and
\* leaves the tip, the blocks, the canonical index, the cumulative
\* difficulties and the head as they were.
C24_SecondGenesisRefused ==
  (tip # <<>> /\ mu = "free") =>
    \A minerAddress \in GenesisMiners, difficulty \in GenesisDifficulties :
       LET r == InitGenesisStep(Cur, minerAddress, difficulty, GenesisTime)
       IN /\ r.err = "ErrChainAlreadyInitialized"
          /\ r.st.tip = tip
          /\ r.st.blocks = blocks
          /\ r.st.canon = canon
          /\ r.st.cdf = cdf
          /\ r.st.head = head

\* InitGenesis was refused on a chain that NewChain loaded from the store.
C24_RefusedOnLoadedChain ==
  /\ last = Called("InitGenesis", "ErrChainAlreadyInitialized")
  /\ tip # <<>>
  /\ tip[1].Header.Height > 0
  /\ head = <<tip[1].Hash>>

\* InitGenesis was refused on a chain that an earlier InitGenesis had
\* initialised.
C24_RefusedAfterGenesis ==
  /\ last = Called("InitGenesis", "ErrChainAlreadyInitialized")
  /\ tip # <<>>
  /\ DOMAIN blocks = {tip[1].Hash}
  /\ tip[1].Header.Timestamp = GenesisTime

\* AddBlock gets as far as the timestamp rules with block: the block is not
\* stored, its parent is, its height is the parent's plus one and its
\* difficulty is the required one.
ReachesTimestampRules(block) ==
  /\ block.Hash \notin DOMAIN blocks
  /\ block.Header.PrevBlockHash \in DOMAIN blocks
  /\ block.Header.Height = blocks[block.Header.PrevBlockHash].Header.Height + 1
  /\ block.Header.Difficulty =
       RequiredDifficulty(Cur, blocks[block.Header.PrevBlockHash]).diff

\* The two rules on whole seconds, as the header encodes the timestamp.
AfterParentInSeconds(block) ==
  Unix(block.Header.Timestamp)
    > Unix(blocks[block.Header.PrevBlockHash].Header.Timestamp)

NotTooFarInSeconds(block, now) ==
  Unix(block.Header.Timestamp) <= Unix(now) + Unix(MaxFutureBlockTime)

\* C25: every non-genesis block that AddBlock accepts has a timestamp, in
\* whole seconds as the header encodes and hashes it, strictly greater than
\* its parent's and at most two hours ahead of the clock at validation time;
\* a block that breaks the first rule is rejected with ErrTimestampTooOld, one
\* that breaks the second with ErrTimestampTooFar.
C25_TimestampRules ==
  (tip # <<>> /\ mu = "free") =>
    \A o \in ClockOffers(Cur) :
       ReachesTimestampRules(o.block) =>
         LET r == AddBlockStep(Cur, o.block, o.now)
         IN /\ o.block.Hash \in DOMAIN r.st.blocks =>
                 (AfterParentInSeconds(o.block) /\ NotTooFarInSeconds(o.block, o.now))
            /\ ~AfterParentInSeconds(o.block) => r.err = "ErrTimestampTooOld"
            /\ (AfterParentInSeconds(o.block) /\ ~NotTooFarInSeconds(o.block, o.now))
                 => r.err = "ErrTimestampTooFar"

\* The same rules on the time values themselves, which carry the fraction of
\* a second.
C25_TimestampRulesSubSecond ==
  (tip # <<>> /\ mu = "free") =>
    \A o \in ClockOffers(Cur) :
       ReachesTimestampRules(o.block) =>
         LET r == AddBlockStep(Cur, o.block, o.now)
             parent == blocks[o.block.Header.PrevBlockHash]
             after == o.block.Header.Timestamp > parent.Header.Timestamp
             near == o.block.Header.Timestamp <= o.now + MaxFutureBlockTime
         IN /\ o.block.Hash \in DOMAIN r.st.blocks => (after /\ near)
            /\ ~after => r.err = "ErrTimestampTooOld"
            /\ (after /\ ~near) => r.err = "ErrTimestampTooFar"

\* The timestamps of accepted blocks are never more than two hours ahead of
\* the clock in whole seconds either.
C25_AcceptedNotTooFar ==
  (tip # <<>> /\ mu = "free") =>
    \A o \in ClockOffers(Cur) :
       LET r == AddBlockStep(Cur, o.block, o.now)
       IN (o.block.Hash \in DOMAIN r.st.blocks \ DOMAIN blocks)
            => NotTooFarInSeconds(o.block, o.now)

\* AddBlock has accepted a block whose timestamp lies in the same second as
\* its parent's.
C25_SameSecondAccepted ==
  /\ last = Called("AddBlock", "nil")
  /\ \E h \in DOMAIN blocks :
       /\ blocks[h].Header.Height > 0
       /\ blocks[h].Header.PrevBlockHash \in DOMAIN blocks
       /\ ~AfterParentInSeconds(blocks[h])

\* b has exactly one coinbase, at index 0 (the first of the sequence), and
\* it pays the block reward.
OneCoinbaseFirst(b) ==
  /\ CoinbaseCount(b.Transactions) = 1
  /\ b.Transactions[1].Type = TxTypeCoinbase
  /\ b.Transactions[1].Amount = TypesBlockReward

\* What AddBlock returns for the honest child of the tip after it has been
\* made to break one rule.
TamperedError(kind) ==
  LET b == Child(Cur, tip[1], [delta |-> Fast, transfers |-> <<>>])
  IN AddBlockStep(Cur, Tamper(b, kind), b.Header.Timestamp).err

\* C26: every block that InitGenesis or AddBlock accepted holds exactly one
\* coinbase, at index 0, of amount BlockReward; a block without coinbase is
\* rejected with ErrNoCoinbaseTx, one with its coinbase behind another
\* transaction with ErrInvalidCoinbasePos, one with a wrong coinbase amount
\* with ErrInvalidCoinbaseAmt, one with more than one coinbase with an error
\* value of its own, different from these three, and one with no transaction
\* at all is rejected.
C26_CoinbaseRules ==
  /\ \A b \in StoredBlocks(Cur) : OneCoinbaseFirst(b)
  /\ (tip # <<>> /\ mu = "free") =>
       /\ TamperedError("nocoinbase") = "ErrNoCoinbaseTx"
       /\ TamperedError("coinbaselast") = "ErrInvalidCoinbasePos"
       /\ TamperedError("amount") = "ErrInvalidCoinbaseAmt"
       /\ TamperedError("twocoinbase") \in
            RejectionErrors \ {"ErrNoCoinbaseTx", "ErrInvalidCoinbasePos",
                               "ErrInvalidCoinbaseAmt"}
       /\ TamperedError("empty") \in RejectionErrors

\* The same with the block of two coinbases rejected with the error of a
\* misplaced coinbase.
C26_CoinbaseRulesThreeErrors ==
  /\ \A b \in StoredBlocks(Cur) : OneCoinbaseFirst(b)
  /\ (tip # <<>> /\ mu = "free") =>
       /\ TamperedError("nocoinbase") = "ErrNoCoinbaseTx"
       /\ TamperedError("coinbaselast") = "ErrInvalidCoinbasePos"
       /\ TamperedError("amount") = "ErrInvalidCoinbaseAmt"
       /\ TamperedError("twocoinbase") = "ErrInvalidCoinbasePos"
       /\ TamperedError("empty") = "ErrNoCoinbaseTx"

\* AddBlock has rejected the block with two coinbases, with the error it
\* returns for a misplaced coinbase.
C26_TwoCoinbasesRejected ==
  /\ tip # <<>>
  /\ mu = "free"
  /\ last = Called("AddBlock", "ErrInvalidCoinbasePos")
  /\ TamperedError("twocoinbase") = last.err
  /\ TamperedError("coinbaselast") = last.err

\* The node's peer handler has sent a message on: it took one from the
\* connection and broadcast it.
LocalGossips ==
  /\ Len(net'.toLocal) < Len(net.toLocal)
  /\ Len(net'.toRemote) > Len(net.toRemote)

RemoteGossips ==
  /\ Len(net'.toRemote) < Len(net.toRemote)
  /\ Len(net'.toLocal) > Len(net.toLocal)

\* The step has made the node with engine before, after the step after, hold
\* what msg carries: the block was not stored and is now, the transaction
\* was not pooled and is now.
NewlyHeld(before, after, msg) ==
  IF msg.kind = "MsgBlock"
  THEN msg.Block.Hash \in DOMAIN after.blocks \ DOMAIN before.blocks
  ELSE msg.Tx.ID \in DOMAIN after.txs \ DOMAIN before.txs

\* C27: a peer handler sends a received block on only if the chain engine
\* has newly accepted it, and a received transaction only if the mempool has
\* newly admitted it: a block that is already stored is not broadcast again.
C27_GossipOnlyNew ==
  [][/\ LocalGossips =>
          NewlyHeld(Cur, Cur', net'.toRemote[Len(net'.toRemote)])
     /\ RemoteGossips =>
          NewlyHeld(net.remote[1], net'.remote[1], net'.toLocal[Len(net'.toLocal)])]_vars

\* The part about transactions.
C27_TxGossipOnlyNew ==
  [][/\ (LocalGossips /\ net'.toRemote[Len(net'.toRemote)].kind = "MsgTx") =>
          NewlyHeld(Cur, Cur', net'.toRemote[Len(net'.toRemote)])
     /\ (RemoteGossips /\ net'.toLocal[Len(net'.toLocal)].kind = "MsgTx") =>
          NewlyHeld(net.remote[1], net'.remote[1], net'.toLocal[Len(net'.toLocal)])]_vars

\* A block is in flight to the peer, which has stored it already: the node
\* that mined it got it back from the peer and sent it on again.
C27_StoredBlockSentAgain ==
  /\ added = 1
  /\ last = Called("AddBlock", "nil")
  /\ \E i \in 1..Len(net.toRemote) :
       /\ net.toRemote[i].kind = "MsgBlock"
       /\ net.toRemote[i].Block.Hash \in DOMAIN net.remote[1].blocks
       /\ net.toRemote[i].Block.Hash \in DOMAIN blocks

\* A goroutine asks for Chain.mu (for reading) while it holds it itself (for
\* writing).
ReacquiresChainLock ==
  \E t \in Threads : calls.pc[t] = "wantchain" /\ calls.chainW = t

\* t waits for Mempool.mu, which u holds.
WaitsForPool(t, u) ==
  /\ \/ calls.pc[t] = "remove"
     \/ calls.pc[t] = "return" /\ calls.toReturn # <<>>
  /\ calls.poolW = u

\* t waits for Chain.mu, which u holds.
WaitsForChain(t, u) ==
  /\ calls.pc[t] = "wantchain"
  /\ calls.chainW = u

\* Two goroutines wait for each other: one holds Mempool.mu and waits for
\* Chain.mu, the other holds Chain.mu and waits for Mempool.mu.
WaitOnEachOther ==
  \E t, u \in Threads : t # u /\ WaitsForChain(t, u) /\ WaitsForPool(u, t)

\* C28: with the mempool attached as the chain's pool, no goroutine asks for
\* the chain lock it already holds and no two goroutines wait on each
\* other's chain lock and mempool lock, so that every combination of
\* concurrent AddBlock, Mempool.AddTransaction and GetAccountState calls can
\* run to its end.
C28_NoLockCycle == ~ReacquiresChainLock /\ ~WaitOnEachOther

\* AddBlock, holding Chain.mu, waits for Mempool.mu in RemoveTransactions
\* while a client's AddTransaction, holding Mempool.mu, waits for Chain.mu in
\* GetAccountState: no step of either is possible.
C28_LockOrderInversion ==
  /\ calls.chainW = "block"
  /\ calls.pc["block"] = "remove"
  /\ calls.poolW = "client"
  /\ calls.pc["client"] = "wantchain"
  /\ ~ENABLED PoolRemove
  /\ ~ENABLED FinishAddTransaction

\* reorganize, inside AddBlock, has called the pool's AddTransaction for a
\* transaction of the abandoned chain, and GetAccountState asks for the lock
\* that AddBlock holds.
C28_SelfDeadlock ==
  /\ calls.chainW = "block"
  /\ calls.poolW = "block"
  /\ calls.pc["block"] = "wantchain"
  /\ calls.adding["block"] = <<Transfer1>>
  /\ ~ENABLED FinishAddTransaction

\* The workers of the search that sent the success token and so write, or
\* have written, into the shared block.
Winners ==
  {i \in Workers : search.worker[i].pc \in {"nonce", "hash", "pow", "won"}}

\* The shared block carries worker i's solution: its nonce, the identity
\* hash and the PoW digest of the header with that nonce, and the digest
\* meets the difficulty.
PublishedBy(i) ==
  /\ search.block.Header.Nonce = search.worker[i].Nonce
  /\ search.block.Hash = ComputeHash(search.block)
  /\ search.block.PowHash = HasherHash(HeaderSerialize(search.block.Header))
  /\ MeetsDifficulty(search.block.PowHash, search.block.Header.Difficulty)

\* C29: in a search at most one worker publishes into the shared block, and
\* from the moment solveBlock has reported success until the block is
\* submitted the block carries exactly that one winner's nonce, hash and
\* PoW digest.
C29_SingleWinnerHandoff ==
  search # NoSearch =>
    /\ Cardinality(Winners) <= 1
    /\ search.caller = "found" => \E i \in Winners : PublishedBy(i)

\* The two halves of C29 on their own.
C29_AtMostOneWinner == search # NoSearch => Cardinality(Winners) <= 1

C29_ReportedMeansPublished ==
  (search # NoSearch /\ search.caller = "found")
    => \E i \in Winners : PublishedBy(i)

\* solveBlock reported success while the winner had written nothing yet, and
\* the loop submitted the block as it was: AddBlock refused it.
C29_SubmittedUnwritten ==
  /\ search # NoSearch
  /\ search.caller = "submitted"
  /\ last = Called("AddBlock", "ErrInvalidBlockHash")

\* A second worker sent a token after the first one had been received, and
\* writes into the block the first winner published.
C29_SecondWinner ==
  /\ search # NoSearch
  /\ Cardinality(Winners) = 2
  /\ search.caller \in {"found", "submitted"}

\* No search is left on a parent other than the tip, and a search runs on a
\* template whose PrevBlockHash is the tip.
MinesOnTip ==
  /\ \A j \in loop.jobs : j.parent.Hash = tip[1].Hash
  /\ \E j \in loop.jobs :
        /\ j.ctx = "live"
        /\ j.template # <<>>
        /\ ~j.solved
        /\ j.template[1].Header.PrevBlockHash = tip[1].Hash

\* C30: whenever the miner does not search on the current tip alone (the tip
\* has changed, by its own block, a peer's block or a reorganization), it
\* eventually does, whether or not the notification got into tipCh.
C30_RestartsOnNewTip == (~MinesOnTip) ~> MinesOnTip

\* The tip changed twice while the loop was busy: tipCh holds the first new
\* tip, the second notification was dropped, and the miner has caught up
\* with the second all the same.
C30_CaughtUpAfterDrop ==
  /\ MinesOnTip
  /\ loop.pc = "select"
  /\ added = MaxMinerBlocks
  /\ Len(subscribers[1]) > 0
  /\ subscribers[1][1].Hash # tip[1].Hash

\* The miner has caught up with a tip that a reorganization made: the
\* canonical block at height 26 is the one that came 50000 s after its
\* parent, which the store of the earlier run held as a side block.
C30_CaughtUpAfterReorg ==
  /\ MinesOnTip
  /\ loop.pc = "select"
  /\ blocks[canon[26]].Header.Timestamp
       = blocks[canon[25]].Header.Timestamp + Slow

\* The miner has caught up with a tip that is its own block.
C30_CaughtUpAfterOwnBlock ==
  /\ MinesOnTip
  /\ loop.pc = "select"
  /\ tip[1].Transactions[1].Nonce = 0
  /\ tip[1].Header.Height > 1

\* Worker i of the search has not returned.
Running(i) ==
  search.worker[i].pc \in {"search", "send", "nonce", "hash", "pow"}

NoWorkerRuns == \A i \in Workers : ~Running(i)

\* A hash attempt of worker i: it goes on to publish, or strides on.
Attempts(i) ==
  /\ search.worker[i].pc = "search"
  /\ \/ search'.worker[i].pc = "send"
     \/ search'.worker[i].Nonce # search.worker[i].Nonce

\* Every hash attempt follows a look at the context and at resultCh that found
\* neither ready.
C31_CheckedEachAttempt ==
  [][\A i \in Workers :
       Attempts(i) => (search.ctx = "live" /\ search.resultCh = 0)]_vars

\* Once the context is cancelled (the loop took a tip or m.quit, or went
\* round), every worker stops.
C31_CancelledWorkersStop == (search.ctx = "done") ~> NoWorkerRuns

\* Once a worker has won, every worker of the search stops.
C31_LosersStop == (Winners # {}) ~> NoWorkerRuns

\* Stop has returned only if the loop has exited.
C31_StopWaitsForLoop == [](search.stop = "returned" => ~search.looping)

C31_StoppedWithWorkersRunning ==
  search.stop = "returned" /\ ~NoWorkerRuns

\* A call that has made all its writes has made of the store and of c.tip
\* what the call as a whole makes of them.
WritesAgree ==
  (calls.pending = <<>> /\ calls.goal # <<>>)
    => /\ blocks = calls.goal[1].blocks
       /\ canon = calls.goal[1].canon
       /\ cdf = calls.goal[1].cdf
       /\ head = calls.goal[1].head
       /\ tip = calls.goal[1].tip

\* C32: in every state, between the store writes of InitGenesis and AddBlock
\* too, every hash in the canonical height index and the hash in the head
\* pointer have their block stored, and the head's block has a stored
\* cumulative difficulty.
C32_PersistBeforeReference ==
  /\ \A h \in DOMAIN canon : canon[h] \in DOMAIN blocks
  /\ head # <<>> => (head[1] \in DOMAIN blocks /\ head[1] \in DOMAIN cdf)

\* A reorganization is between two of its index writes: the index names a
\* block of the new branch, the head pointer still the old tip.
C32_BetweenIndexWrites ==
  /\ calls.pending # <<>>
  /\ Head(calls.pending).op = "SetCanonical"
  /\ tip # <<>>
  /\ tip[1].Header.Height > DifficultyAdjustmentWindow
  /\ \E h \in DOMAIN canon :
        /\ h <= tip[1].Header.Height
        /\ h > 0
        /\ blocks[canon[h]].Header.PrevBlockHash # canon[h - 1]

\* The canonical height index maps every height up to the tip's to the tip's
\* ancestor at that height.
IndexFollowsTip ==
  \A h \in 0..tip[1].Header.Height :
     LET a == GetAncestorAtHeight(Cur, tip[1], h)
     IN /\ a.err = "nil"
        /\ h \in DOMAIN canon
        /\ canon[h] = a.block.Hash

\* C37: when the node has stopped between two store writes of AddBlock and a
\* new Chain has been opened on the store, the tip is the block the head
\* pointer names and the canonical height index maps every height up to the
\* tip's to the tip's ancestor at that height.
C37_CrashConsistency ==
  calls.reopened => (tip = <<blocks[head[1]]>> /\ IndexFollowsTip)

\* The first half of C37 on its own: the restored tip is the block the head
\* pointer names.
C37_RestoredTipIsHead == calls.reopened => tip = <<blocks[head[1]]>>

\* The node stopped in the middle of a reorganization and was opened again:
\* the tip is the old tip, and the index at the tip's height names a block
\* of the branch that was being adopted.
C37_ReopenedInsideReorganization ==
  /\ calls.reopened
  /\ tip = <<blocks[head[1]]>>
  /\ tip[1].Header.Height \in DOMAIN canon
  /\ canon[tip[1].Header.Height] # tip[1].Hash

\* The value of a math/big integer that fits an int.
RECURSIVE BigValue(_)
BigValue(x) == IF x = <<>> THEN 0 ELSE Head(x) + BigBase * BigValue(Tail(x))

\* A call of CalcNextRequiredDifficulty on a parent at or above the window
\* whose lookup by height succeeds has returned.
Retargeted ==
  /\ "returned" \in DOMAIN calls
  /\ calls.returned # <<>>
  /\ calls.input.prevBlock # <<>>
  /\ calls.input.prevBlock[1].Height >= DifficultyAdjustmentWindow
  /\ calls.input.getBlockByHeight[0].err = "nil"

\* The block at height parent.height - 23.
RetargetFirst ==
  calls.input.getBlockByHeight[calls.input.prevBlock[1].Height - 23].block

RetargetWindow == calls.input.prevBlock[1].Timestamp - RetargetFirst.Timestamp

\* On parents whose difficulty the other specifications use, the function
\* on ints returns what the function at full width returns.
RetargetAgrees ==
  (Retargeted /\ Len(calls.input.prevBlock[1].Difficulty) <= 2) =>
     CalcNextRequiredDifficulty(
        [Header |-> [Height |-> calls.input.prevBlock[1].Height,
                     Difficulty |-> BigValue(calls.input.prevBlock[1].Difficulty),
                     Timestamp |-> 2 * calls.input.prevBlock[1].Timestamp]],
        [block |-> [Header |-> [Timestamp |-> 2 * RetargetFirst.Timestamp]],
         err |-> "nil"]).diff
     = BigValue(calls.returned[1].diff)

C33_Capped ==
  /\ Retargeted
  /\ RetargetWindow = 12 * 3600
  /\ calls.input.prevBlock[1].Difficulty = BigShift(128, 7)
  /\ calls.returned[1].diff = MaxUint64

\* Every stored block but the genesis block is stamped exactly
\* TargetBlockTime after its parent, and every one is on the canonical chain.
SteadyChain ==
  \A h \in DOMAIN blocks :
     /\ OnCanon(blocks[h])
     /\ blocks[h].Header.Height > 0 =>
          Unix(blocks[h].Header.Timestamp)
            = Unix(blocks[blocks[h].Header.PrevBlockHash].Header.Timestamp)
                + TargetBlockTime

\* C40: on a chain whose blocks are stamped exactly TargetBlockTime apart,
\* the difficulty required of every block, and of the next block on the
\* tip, equals the genesis difficulty, at every height and for every genesis
\* difficulty from 1 on.
C40_SteadyDifficulty ==
  SteadyChain =>
    /\ \A h \in DOMAIN blocks :
          blocks[h].Header.Difficulty = blocks[canon[0]].Header.Difficulty
    /\ RequiredDifficulty(Cur, tip[1]).diff = blocks[canon[0]].Header.Difficulty

\* The part of C40 that holds: below a genesis difficulty of 23 the
\* required difficulty stays the genesis difficulty.
C40_SteadyBelow23 ==
  (SteadyChain /\ blocks[canon[0]].Header.Difficulty < 23) =>
    RequiredDifficulty(Cur, tip[1]).diff = blocks[canon[0]].Header.Difficulty

\* AddBlock has accepted the block of height 25 of a steady chain with a
\* difficulty above the genesis difficulty.
C40_RaisedAtWindow ==
  /\ SteadyChain
  /\ last = Called("AddBlock", "nil")
  /\ tip[1].Header.Height = DifficultyAdjustmentWindow + 1
  /\ tip[1].Header.Difficulty > blocks[canon[0]].Header.Difficulty

\* C39: in every reachable state of the mempool, no two pooled transactions
\* of one sender carry the same nonce.
C39_OneNoncePerSender ==
  \A i, j \in DOMAIN txs :
     (i # j /\ txs[i].From = txs[j].From) => txs[i].Nonce # txs[j].Nonce

\* Two transactions of one sender are pooled while a block other than the
\* start-up tip is the tip.
C39_TwoPooledAfterChainChange ==
  /\ \E i, j \in DOMAIN txs : i # j /\ txs[i].From = txs[j].From
  /\ added > 0
  /\ last = Called("AddBlock", "nil")

\* GetPendingTransactions has returned.
HasListed == last.op = "GetPendingTransactions"

\* a comes before b in the order (ascending timestamp, ascending id).
ByTimestampThenID(a, b) ==
  \/ a.Timestamp < b.Timestamp
  \/ a.Timestamp = b.Timestamp /\ a.ID[1] < b.ID[1]

\* What is listed is pooled, nothing is listed twice, no more than maxCount
\* and no fewer than the pool allows.
ListedFromPool ==
  /\ \A i \in 1..Len(last.result) :
        last.result[i].ID \in DOMAIN txs /\ txs[last.result[i].ID] = last.result[i]
  /\ \A i, j \in 1..Len(last.result) : i # j => last.result[i] # last.result[j]
  /\ Len(last.result) <= last.maxCount
  /\ Len(last.result) = last.maxCount \/ Len(last.result) = Cardinality(DOMAIN txs)

\* C34: GetPendingTransactions(max) returns at most max pooled transactions,
\* none twice, in the order (ascending timestamp, ascending id): every
\* listed transaction comes before the next one in that order, and before
\* every pooled transaction that is not listed.
C34_DeterministicListing ==
  HasListed =>
    /\ ListedFromPool
    /\ \A i, j \in 1..Len(last.result) :
          i < j => ByTimestampThenID(last.result[i], last.result[j])
    /\ \A i \in 1..Len(last.result) :
          \A id \in DOMAIN txs :
             (\A j \in 1..Len(last.result) : last.result[j].ID # id)
               => ByTimestampThenID(last.result[i], txs[id])

\* The part of C34 that holds: at most max pooled transactions, none twice,
\* in ascending timestamp order, none with a later timestamp than a
\* transaction left out.
C34_ListedByTimestamp ==
  HasListed =>
    /\ ListedFromPool
    /\ \A i, j \in 1..Len(last.result) :
          i < j => last.result[i].Timestamp <= last.result[j].Timestamp
    /\ \A i \in 1..Len(last.result) :
          \A id \in DOMAIN txs :
             (\A j \in 1..Len(last.result) : last.result[j].ID # id)
               => last.result[i].Timestamp <= txs[id].Timestamp

\* A listing of a pool of two transactions with one timestamp, the one with
\* the greater id first.
C34_TieAgainstID ==
  /\ HasListed
  /\ Cardinality(DOMAIN txs) = 2
  /\ Len(last.result) = 2
  /\ last.result[1].Timestamp = last.result[2].Timestamp
  /\ last.result[1].ID[1] > last.result[2].ID[1]

\* The transaction with this id is in a block of the canonical chain of st.
OnCanonicalChain(st, id) ==
  \E h \in DOMAIN st.canon :
     \E i \in 1..Len(st.blocks[st.canon[h]].Transactions) :
        st.blocks[st.canon[h]].Transactions[i].ID = id

\* C36: a transaction leaves the mempool through the miner only when a block
\* of the canonical chain contains it at that time; the transactions of a
\* solved block that AddBlock stores as a side-chain block stay pooled.
C36_RemovesOnlyCanonical ==
  [][\A id \in DOMAIN txs \ DOMAIN txs' : OnCanonicalChain(Cur', id)]_vars

\* AddBlock has stored the miner's block next to the tip, as a second child
\* of the tip's parent, and a transfer the block carries is neither pooled
\* nor in a block of the canonical chain.
C36_TransferLost ==
  /\ last = Called("AddBlock", "nil")
  /\ \E h \in DOMAIN blocks :
        /\ blocks[h] # tip[1]
        /\ blocks[h].Header.PrevBlockHash = tip[1].Header.PrevBlockHash
        /\ \E i \in 2..Len(blocks[h].Transactions) :
             /\ blocks[h].Transactions[i] \in MinerTxOffers
             /\ blocks[h].Transactions[i].ID \notin DOMAIN txs
             /\ ~OnCanonicalChain(Cur, blocks[h].Transactions[i].ID)

\* The transfers of one sender come in ascending nonce order in list.
NonceOrdered(list) ==
  \A i, j \in 1..Len(list) :
     (i < j /\ list[i].Type = TxTypeTransfer /\ list[j].Type = TxTypeTransfer
        /\ list[i].From = list[j].From) => list[i].Nonce < list[j].Nonce

\* C38: GetPendingTransactions returns the pooled transactions of one sender
\* with the smaller nonce first, so every block template the miner builds
\* lists each sender's transfers in ascending nonce order.
C38_TemplatesInNonceOrder ==
  loop # NoLoop =>
    \A j \in loop.jobs : j.template # <<>> => NonceOrdered(j.template[1].Transactions)

\* A job holds a template that lists the sender's transfer with nonce 2
\* before the one with nonce 1.
C38_TemplateAgainstNonce ==
  /\ loop # NoLoop
  /\ \E j \in loop.jobs :
        /\ j.template # <<>>
        /\ Len(j.template[1].Transactions) = 3
        /\ j.template[1].Transactions[2].Nonce = 2
        /\ j.template[1].Transactions[3].Nonce = 1

\* AddBlock(last.block) has returned nil.
Accepted == last.op = "AddBlock" /\ last.err = "nil" /\ "block" \in DOMAIN last

\* C35: whenever AddBlock(b) returns nil, the block stored under b.Hash has
\* b's header and b's transaction list: a block that claims the hash, or
\* has the merkle root, of a stored block with another content is not
\* reported as accepted.
C35_AcceptedIsStored ==
  Accepted =>
    /\ last.block.Hash \in DOMAIN blocks
    /\ blocks[last.block.Hash].Header = last.block.Header
    /\ blocks[last.block.Hash].Transactions = last.block.Transactions

\* The part of C35 that holds: a block whose hash was not stored before
\* the call and for which AddBlock returns nil is stored as it was given.
C35_NewBlockStoredAsGiven ==
  (Accepted /\ ~last.known) =>
    /\ last.block.Hash \in DOMAIN blocks
    /\ blocks[last.block.Hash] = last.block

\* AddBlock has returned nil for a block whose header is not the header of
\* the block stored under its hash.
C35_ForgedHeaderAccepted ==
  /\ Accepted
  /\ last.block.Hash \in DOMAIN blocks
  /\ blocks[last.block.Hash].Header # last.block.Header

\* AddBlock has returned nil for a block with the header and the merkle
\* root of the stored block and one transaction more.
C35_MerkleTwinAccepted ==
  /\ Accepted
  /\ last.block.Hash \in DOMAIN blocks
  /\ blocks[last.block.Hash].Header = last.block.Header
  /\ ComputeMerkleRoot(last.block.Transactions) = last.block.Header.MerkleRoot
  /\ Len(last.block.Transactions) = Len(blocks[last.block.Hash].Transactions) + 1

====
